---- MODULE Spec2Model ----
(***************************************************************************)
(* State-machine model of voicelink's chunked recorder                     *)
(* (src/voicelink/chunked_recorder.py) and of the session objects and      *)
(* session store it drives (src/voicelink/session.py).                     *)
(*                                                                         *)
(* Two threads run recorder code: the chunker thread                       *)
(* (_chunk_processing_loop) and the thread that calls stop().  Both run    *)
(* _save_chunk, _handle_session and _complete_current_session, so these    *)
(* are modelled once, per thread, with a program counter pc[t] and the     *)
(* thread's local variables loc[t].  A thread can be overtaken by the      *)
(* other at the places where the code blocks: file I/O, store I/O and      *)
(* subscriber callbacks.                                                   *)
(*                                                                         *)
(* Audio is measured in frames; durations are kept in frames               *)
(* (duration_seconds * sample_rate), so every comparison of the code       *)
(* between seconds is made between frame counts scaled by sample_rate.     *)
(***************************************************************************)
EXTENDS Integers, Sequences, FiniteSets, TLC

VARIABLES
    cfg,                        \* VoiceLinkConfig (fixed after construction)
    env,                        \* what the host does in this run (fixed)
    ret,                        \* history: last value returned by start()
                                \* and by switch_device(), "none" before
    clock,                      \* wall clock (datetime.now / time.time)
    is_recording,               \* state.is_recording
    stream,                     \* self._stream: "none" | "open" (running)
                                \* | "unstarted" (an object, not running)
    device,                     \* self.device
    stop_event,                 \* self._stop_event
    lock,                       \* holder of self._buffer_lock
    buffer,                     \* frames in self._audio_buffer
    chunk_count,                \* state.chunk_count
    total_duration,             \* state.total_duration (frames)
    last_chunk_time,            \* state.last_chunk_time
    current_session,            \* state.current_session (0 = None)
    consecutive_silence_count,  \* state.consecutive_silence_count
    sessions,                   \* the Session objects created so far
    store,                      \* rows of sessions.db, by session id
    produced,                   \* AudioChunk objects, in order of creation
    files,                      \* chunk files on disk, by relative path
    call,                       \* last call of a function of the recorder
                                \* checked by itself: arguments and result
    watch,                      \* the silence watch checked by itself: the
                                \* fields and threads that request a scan
    events,                     \* subscriber callbacks fired, in order
    pc,                         \* per thread: position in the code
    loc,                        \* per thread: local variables
    last_device_scan_time,      \* self._last_device_scan_time
    scans,                      \* live _scan_and_switch threads
    device_events,              \* on_device_changed callbacks fired, in order
    delivered,                  \* history: frames the audio callback delivered
    closures,                   \* history: every session closure made
    run_switch                  \* history: device switched since the last
                                \* non-silent chunk was handled

vars == <<cfg, env, call, watch, files, ret, clock, is_recording, stream, device, stop_event, lock, buffer,
          chunk_count, total_duration, last_chunk_time, current_session,
          consecutive_silence_count, sessions, store, produced, events,
          pc, loc, last_device_scan_time, scans, device_events, delivered,
          closures, run_switch>>

----------------------------------------------------------------------------
(* Bounds of the model *)

MaxFrames == 6          \* frames the audio callback delivers in all
MaxTicks == 1           \* clock ticks after construction
MaxSwitches == 1        \* successful switch_device calls of a client

(* Configurations explored (VoiceLinkConfig) *)

ChunkDurations == {2}           \* recording.chunk_duration_seconds
SampleRates == {1}              \* recording.sample_rate (frames per second)
SilenceThresholds == {1}        \* recording.silence_threshold
SilenceGaps == {1, 4}        \* session.silence_gap_seconds
MinDurations == {3}             \* session.min_session_duration
AutoSwitches == {TRUE}          \* device.auto_switch
SwitchTimeouts == {2}           \* device.silence_timeout_for_switch
StartTimes == {5}               \* clock value at construction
Devices == {1, 2}               \* host device indices

(* Classifier verdict inputs *)

\* <<rms, speech_ratio in percent>>: quiet, loud without speech, loud speech
Verdicts == {<<0, 0>>, <<2, 0>>, <<2, 5>>}

(* Program constants *)

SpeechMinPercent == 5           \* speech_ratio < 0.05
ScanInterval == 5               \* minimum seconds between two scans

\* the chunker thread, the thread that calls stop(), the monitor thread
Threads == {"chunker", "stopper", "monitor"}

\* data: frames of audio_data; off: where they lie in the captured stream
NoLocals ==
    [data |-> 0, off |-> 0, now |-> 0, idx |-> 0, chunk |-> 0, sess |-> 0,
     cret |-> "none"]

Absent == [present |-> FALSE, status |-> "none", chunks |-> <<>>, end_time |-> 0]

----------------------------------------------------------------------------
(* Pure functions *)

Threshold == cfg.silence_gap_seconds \div cfg.chunk_duration_seconds

SamplesPerChunk == cfg.chunk_duration_seconds * cfg.sample_rate

\* variant of IsSilentVerdict that applies the RMS gate alone
IsSilentRmsOnly(rms, speech) == rms < cfg.silence_threshold

\* line 183, speech in percent
IsSilentVerdict(rms, speech) ==
    (rms < cfg.silence_threshold) \/ (speech < SpeechMinPercent)

\* variant of SumNonSilent that also counts the silent chunks
RECURSIVE SumAllChunks(_)
SumAllChunks(cs) ==
    IF cs = <<>> THEN 0
    ELSE produced[Head(cs)].duration + SumAllChunks(Tail(cs))

\* sum(c.duration_seconds for c in self.chunks if not c.is_silent)
RECURSIVE SumNonSilent(_)
SumNonSilent(cs) ==
    IF cs = <<>> THEN 0
    ELSE (IF produced[Head(cs)].is_silent THEN 0
          ELSE produced[Head(cs)].duration) + SumNonSilent(Tail(cs))

\* Session.duration_seconds, in frames
DurationFrames(s) == SumNonSilent(sessions[s].chunks)

\* variant of TooShort that also rejects a duration equal to the minimum
TooShortOrEqual(s) ==
    DurationFrames(s) <= cfg.min_session_duration * cfg.sample_rate

\* duration_seconds < min_session_duration
TooShort(s) == DurationFrames(s) < cfg.min_session_duration * cfg.sample_rate

\* chunk.timestamp + timedelta(seconds=chunk.duration_seconds), in frames
ChunkEnd(c) == produced[c].timestamp * cfg.sample_rate + produced[c].duration

\* Session.add_chunk
AddChunk(sess, s, c) ==
    [sess EXCEPT ![s].chunks = Append(@, c), ![s].end_time = ChunkEnd(c)]

\* Session.complete
CompleteSession(sess, s) ==
    [sess EXCEPT ![s].status = "completed",
                 ![s].end_time =
                     IF sess[s].chunks # <<>> /\ @ = -1
                     THEN ChunkEnd(sess[s].chunks[Len(sess[s].chunks)])
                     ELSE @]

\* Session.create_new
NewSession(ts) ==
    [start_time |-> ts, end_time |-> -1, chunks |-> <<>>, status |-> "recording"]

\* SessionManager.save_session: upsert of the session document
SaveSession(st, sess, s) ==
    [st EXCEPT ![s] = [present |-> TRUE, status |-> sess[s].status,
                       chunks |-> sess[s].chunks, end_time |-> sess[s].end_time]]

\* SessionManager.delete_session
DeleteSession(st, s) == [st EXCEPT ![s] = Absent]

\* trailing silent chunks of a chunk list
RECURSIVE TailSilent(_)
TailSilent(cs) ==
    IF cs = <<>> THEN 0
    ELSE IF produced[cs[Len(cs)]].is_silent
         THEN 1 + TailSilent(SubSeq(cs, 1, Len(cs) - 1))
         ELSE 0

----------------------------------------------------------------------------
(* Initial state: a constructed recorder that has not been started *)

Configs ==
    [chunk_duration_seconds : ChunkDurations,
     sample_rate : SampleRates,
     silence_threshold : SilenceThresholds,
     silence_gap_seconds : SilenceGaps,
     min_session_duration : MinDurations,
     auto_switch : AutoSwitches,
     silence_timeout_for_switch : SwitchTimeouts]

\* The host of a run.  frames: frames the capture stream delivers in all;
\* tone: the stream starts with that many frames of audible speech and is
\* silent after them, and stop() is called once it has been fed (0: the
\* content of the stream and the moment of stop() are free); disk: whether
\* writing a chunk file can fail; vad: whether the VAD backend works;
\* store: whether a write to sessions.db can fail; audio: whether stopping
\* or closing the capture stream in stop() can fail, and whether
\* switch_device can fail after the new stream was created; subscribers:
\* whether a registered callback can raise; join: whether the chunker can
\* still be busy with a chunk when the 5 s join in stop() times out.
AnyHost ==
    [frames |-> MaxFrames, tone |-> 0, disk |-> "failing", vad |-> "ok",
     store |-> "ok", audio |-> "ok", subscribers |-> "ok", join |-> "late"]

\* the threads that run _check_alternative_devices: the chunker (line 258)
\* and the thread the monitor spawns for it (line 349)
ProbeThreads == {"chunker", "spawned"}

\* the silence watch of a constructed recorder (lines 18-36 and 56-71).
\* A time of the program is kept as its age, the seconds between it and
\* the clock, counted up to the first value no test of the program tells
\* from a larger one: uptime is the age of the return of start();
\* last_sound_time and last_device_scan_time are the ages of the fields
\* of that name, -1 for a last_sound_time of 0.0; read is the age of the
\* clock value a thread holds in `now`; scan_started is the age of the
\* latest start of a scan thread, -1 before the first.  slept: the
\* monitor's sleep of one second is over.  silent: whether the chunk the
\* chunker is handling is silent.  too_soon, requested and tail are
\* history: a scan thread was started less than ScanInterval after the
\* one before; _check_alternative_devices was called; the silent chunks
\* appended to the current session since its last non-silent chunk and
\* since the last successful switch_device, counted up to SilenceCap + 1.
Unstarted ==
    [is_recording |-> FALSE, uptime |-> 0, buffer |-> 0, loud |-> FALSE,
     last_sound_time |-> -1, last_device_scan_time |-> ScanInterval + 1,
     current_session |-> FALSE, consecutive_silence_count |-> 0,
     silent |-> FALSE, tail |-> 0, slept |-> FALSE,
     probe |-> [t \in ProbeThreads |-> [pc |-> "idle", read |-> 0]],
     scan_started |-> -1, too_soon |-> FALSE, requested |-> FALSE]

Constructed(c, e) ==
    /\ cfg = c
    /\ env = e
    /\ files = {}
    /\ call = [op |-> "none"]
    /\ ret = [start |-> "none", switch |-> "none", old |-> "none",
              scan |-> <<"none", FALSE>>]
    /\ clock \in StartTimes
    /\ watch = Unstarted
    /\ is_recording = FALSE
    /\ stream = "none"
    /\ device = CHOOSE d \in Devices : \A x \in Devices : d <= x
    /\ stop_event = FALSE
    /\ lock = "free"
    /\ buffer = 0
    /\ chunk_count = 0
    /\ total_duration = 0
    /\ last_chunk_time = 0
    /\ current_session = 0
    /\ consecutive_silence_count = 0
    /\ sessions = <<>>
    /\ store = <<>>
    /\ produced = <<>>
    /\ events = <<>>
    /\ pc = [t \in Threads |-> "idle"]
    /\ loc = [t \in Threads |-> NoLocals]
    /\ last_device_scan_time = 0
    /\ scans = 0
    /\ device_events = <<>>
    /\ delivered = 0
    /\ closures = <<>>
    /\ run_switch = FALSE

Init == \E c \in Configs : Constructed(c, AnyHost)

\* hosts on which one service fails: the VAD backend, the session store,
\* the capture stream
FaultyHosts ==
    {[AnyHost EXCEPT !.vad = "down"],
     [AnyHost EXCEPT !.store = "failing"],
     [AnyHost EXCEPT !.audio = "failing"]}

InitFaults == \E c \in Configs, e \in FaultyHosts : Constructed(c, e)

\* a host on which the first subscriber of every event raises when called
RaisingHost ==
    [AnyHost EXCEPT !.subscribers = "raising", !.join = "in_time",
                    !.frames = MaxFrames - 1]

InitSubscribers == \E c \in Configs : Constructed(c, RaisingHost)

\* the host of the runs in which a client switches the device
ClientHost == [AnyHost EXCEPT !.join = "in_time", !.frames = MaxFrames - 1]

InitClient == \E c \in Configs : Constructed(c, ClientHost)

\* Scenario S3 of the specification: 10 s chunks, a 20 s silence gap, a
\* minimum session of 10 s; 4 s of audible speech, 25 s of silence, stop().
\* One frame stands for one second of audio.
ScenarioS3 ==
    [cfg |-> [chunk_duration_seconds |-> 10, sample_rate |-> 1,
              silence_threshold |-> 1, silence_gap_seconds |-> 20,
              min_session_duration |-> 10, auto_switch |-> TRUE,
              silence_timeout_for_switch |-> 5],
     env |-> [frames |-> 29, tone |-> 4, disk |-> "ok", vad |-> "ok",
              store |-> "ok", audio |-> "ok", subscribers |-> "ok",
              join |-> "late"]]

InitS3 == Constructed(ScenarioS3.cfg, ScenarioS3.env)

----------------------------------------------------------------------------
(* Helpers of the thread model *)

\* where _handle_session returns to: the chunker loop, or stop()'s flush
Ret(t) == IF t = "chunker" THEN "loop" ELSE "flush_done"

\* where _complete_current_session returns to
AfterComplete(t, cret) ==
    IF cret = "hs_switch" THEN "hs_switch"
    ELSE IF cret = "close" THEN "close"
    ELSE Ret(t)

\* where an exception that nothing catches leaves thread t: the chunker
\* thread dies (its loop has no handler), stop() raises to its caller
Raised(t) == IF t = "chunker" THEN "crashed" ELSE "raised"

\* the buffer lock once an exception has left the with-block of thread t
Released(t) == IF lock = t THEN "free" ELSE lock

\* outcomes of a write to sessions.db (save_session, delete_session)
StoreOutcomes == IF env.store = "failing" THEN BOOLEAN ELSE {TRUE}

\* positions of the chunker inside one iteration of its loop
MidIteration ==
    {"save", "write", "handle", "start_save", "hs_save", "hs_switch",
     "complete", "complete_reset"}

ClockLimit == (CHOOSE m \in StartTimes : \A x \in StartTimes : x <= m) + MaxTicks

\* the callbacks registered for an event, in order of registration
SubscriberList == <<1, 2>>

\* the subscribers that raise when called: on a raising host the first
\* one, each time it is called
Raisers == IF env.subscribers = "raising" THEN {{1}} ELSE {{}}

\* variant of Invoke without the try block: a raise ends the loop
RECURSIVE InvokeUnguarded(_, _)
InvokeUnguarded(subs, raisers) ==
    IF subs = <<>> THEN <<>>
    ELSE IF Head(subs) \in raisers THEN <<Head(subs)>>
    ELSE <<Head(subs)>> \o InvokeUnguarded(Tail(subs), raisers)

\* for callback in subscribers: try: callback(...) except Exception: log.
\* The subscribers that were called, in order.
RECURSIVE Invoke(_, _)
Invoke(subs, raisers) ==
    IF subs = <<>> THEN <<>>
    ELSE <<Head(subs)>> \o Invoke(Tail(subs), raisers)

\* one firing of a lifecycle event by thread t
Event(kind, id, t, raisers) ==
    [kind |-> kind, id |-> id, by |-> t,
     heard |-> Invoke(SubscriberList, raisers), raised |-> raisers]

----------------------------------------------------------------------------
(* Environment *)

\* time passes; the step is taken only where the code is about to read the
\* clock (line 152, line 498), the only places where its value is observed
Tick ==
    /\ clock < ClockLimit
    /\ \E t \in Threads : pc[t] \in {"save", "hs_switch"}
    /\ clock' = clock + 1
    /\ UNCHANGED <<cfg, env, call, watch, files, ret, is_recording, stream, device, stop_event, lock,
                   buffer, chunk_count, total_duration, last_chunk_time,
                   current_session, consecutive_silence_count, sessions,
                   store, produced, events, pc, loc, last_device_scan_time,
                   scans, closures, run_switch, device_events, delivered>>

\* _audio_callback: append one frame under the buffer lock.  A scripted
\* stream is fed in real time: the chunker, which wakes every 100 ms (line
\* 360), has cut a full chunk off the buffer before the next second of
\* audio arrives, unless it is still busy with the chunk before.
AudioCallback ==
    /\ stream = "open"
    /\ lock = "free"
    /\ delivered < env.frames
    /\ env.tone > 0 =>
          (buffer < SamplesPerChunk \/ pc["chunker"] \in MidIteration)
    /\ buffer' = buffer + 1
    /\ delivered' = delivered + 1
    /\ UNCHANGED <<cfg, env, call, watch, files, ret, clock, is_recording, stream, device, stop_event,
                   lock, chunk_count, total_duration, last_chunk_time,
                   current_session, consecutive_silence_count, sessions,
                   store, produced, events, pc, loc, last_device_scan_time,
                   scans, closures, run_switch, device_events>>

----------------------------------------------------------------------------
(* start() *)

\* variant of RecordingAfterStart that sets the flag before the stream opens
RecordingBeforeStart(outcome) == TRUE

\* state.is_recording when start() returns: line 441 is reached only when
\* the stream runs
RecordingAfterStart(outcome) == outcome = "running"

\* lines 387-443: if the stream cannot be created (line 416) or started
\* (line 424) return False; else clear the stop event, start the worker
\* threads, set is_recording and return True
Start ==
    /\ ~is_recording
    /\ pc["chunker"] = "idle"
    /\ pc["stopper"] = "idle"
    /\ \E outcome \in {"running", "not_created", "not_started"} :
          /\ is_recording' = RecordingAfterStart(outcome)
          /\ IF outcome = "running"
             THEN /\ stream' = "open"
                  /\ stop_event' = FALSE
                  /\ pc' = [pc EXCEPT !["chunker"] = "loop",
                                      !["monitor"] = "running"]
                  /\ ret' = [ret EXCEPT !.start = "True"]
             ELSE /\ stream' = IF outcome = "not_started" THEN "unstarted"
                               ELSE stream
                  /\ ret' = [ret EXCEPT !.start = "False"]
                  /\ UNCHANGED <<stop_event, pc>>
    /\ UNCHANGED <<cfg, env, call, watch, files, clock, device, lock, buffer, chunk_count,
                   total_duration, last_chunk_time, current_session,
                   consecutive_silence_count, sessions, store, produced,
                   events, loc, last_device_scan_time, scans, closures,
                   run_switch, device_events, delivered>>

----------------------------------------------------------------------------
(* _chunk_processing_loop *)

\* while not self._stop_event.is_set()
ChunkerCheck ==
    /\ pc["chunker"] = "loop"
    /\ pc' = [pc EXCEPT !["chunker"] = IF stop_event THEN "exited" ELSE "sleep"]
    /\ UNCHANGED <<cfg, env, call, watch, files, ret, clock, is_recording, stream, device, stop_event,
                   lock, buffer, chunk_count, total_duration,
                   last_chunk_time, current_session,
                   consecutive_silence_count, sessions, store, produced,
                   events, loc, last_device_scan_time, scans, closures,
                   run_switch, device_events, delivered>>

\* variant of TailAfterCut that empties the accumulator
TailDropped == buffer - buffer

\* lines 374 and 377: the frames behind the chunk go back to the accumulator
TailAfterCut == buffer - SamplesPerChunk

\* sleep, then under the lock: cut one chunk off the accumulator, or continue
ChunkerCut ==
    /\ pc["chunker"] = "sleep"
    /\ lock = "free"
    /\ IF buffer = 0 \/ buffer < SamplesPerChunk
       THEN /\ pc' = [pc EXCEPT !["chunker"] = "loop"]
            /\ UNCHANGED <<buffer, loc>>
       ELSE /\ buffer' = TailAfterCut
            /\ loc' = [loc EXCEPT !["chunker"] =
                          [NoLocals EXCEPT !.data = SamplesPerChunk,
                                           !.off = delivered - buffer]]
            /\ pc' = [pc EXCEPT !["chunker"] = "save"]
    /\ UNCHANGED <<cfg, env, call, watch, files, ret, clock, is_recording, stream, device, stop_event,
                   lock, chunk_count, total_duration, last_chunk_time,
                   current_session, consecutive_silence_count, sessions,
                   store, produced, events, last_device_scan_time, scans,
                   closures, run_switch, device_events, delivered>>

----------------------------------------------------------------------------
(* _save_chunk, run by thread t *)

\* lines 149-160: read the clock and the counter
SaveChunkBegin(t) ==
    /\ pc[t] = "save"
    /\ loc' = [loc EXCEPT ![t].now = clock, ![t].idx = chunk_count + 1]
    /\ pc' = [pc EXCEPT ![t] = IF loc[t].data = 0 THEN Ret(t) ELSE "write"]
    /\ UNCHANGED <<cfg, env, call, watch, files, ret, clock, is_recording, stream, device, stop_event,
                   lock, buffer, chunk_count, total_duration,
                   last_chunk_time, current_session,
                   consecutive_silence_count, sessions, store, produced,
                   events, last_device_scan_time, scans, closures,
                   run_switch, device_events, delivered>>

\* the AudioChunk built at lines 198-207
MakeChunk(l, rms, speech) ==
    [file_path |-> <<l.now, l.idx>>,
     timestamp |-> l.now,
     duration |-> l.data,
     index |-> l.idx,
     rms_level |-> rms,
     speech_ratio |-> speech,
     is_silent |-> IsSilentVerdict(rms, speech)]

\* frames of speech among the frames off+1 .. off+n of a scripted stream
SpeechFrames(off, n) ==
    Cardinality({i \in (off + 1)..(off + n) : i <= env.tone})

\* <<rms, share of voiced samples in percent>> the data of l can measure:
\* any of Verdicts when the content of the stream is free, else what the
\* scripted stream holds there (loud as soon as it holds some speech)
Heard(l) ==
    IF env.tone = 0 THEN Verdicts
    ELSE LET k == SpeechFrames(l.off, l.data)
         IN {<<IF k > 0 THEN 2 ELSE 0, (k * 100) \div l.data>>}

\* _calculate_speech_ratio: the voiced share, or 0.0 when the VAD raises
SpeechRatio(voiced) == IF env.vad = "down" THEN 0 ELSE voiced

\* outcomes of writing the chunk file (lines 186-195)
WriteOutcomes == IF env.disk = "failing" THEN BOOLEAN ELSE {TRUE}

\* variant of CountAfterWrite that advances the counter before the write
CountBeforeWrite(ok, l) == l.idx

\* state.chunk_count after the write: line 209 is reached only if the file
\* was written
CountAfterWrite(ok, l) == IF ok THEN l.idx ELSE chunk_count

\* lines 162-222: classify the audio and write the file; on success build
\* the chunk, advance the counters and call the on_chunk_saved subscribers
SaveChunkWrite(t) ==
    /\ pc[t] = "write"
    /\ \E ok \in WriteOutcomes, v \in Heard(loc[t]), r \in Raisers :
          IF ok
          THEN /\ files' = files \cup {<<loc[t].now, loc[t].idx>>}
               /\ produced' = Append(produced,
                                    MakeChunk(loc[t], v[1], SpeechRatio(v[2])))
               /\ chunk_count' = CountAfterWrite(ok, loc[t])
               /\ total_duration' = total_duration + loc[t].data
               /\ last_chunk_time' = loc[t].now
               /\ events' = Append(events,
                                   Event("chunk_saved", Len(produced) + 1, t, r))
               /\ loc' = [loc EXCEPT ![t].chunk = Len(produced) + 1]
               /\ pc' = [pc EXCEPT ![t] = "handle"]
          ELSE /\ pc' = [pc EXCEPT ![t] = Ret(t)]
               /\ chunk_count' = CountAfterWrite(ok, loc[t])
               /\ UNCHANGED <<files, produced, total_duration, last_chunk_time,
                              events, loc>>
    /\ UNCHANGED <<cfg, env, call, watch, ret, clock, is_recording, stream, device, stop_event,
                   lock, buffer, current_session, consecutive_silence_count,
                   sessions, store, last_device_scan_time, scans, closures,
                   run_switch, delivered,
                   device_events>>

----------------------------------------------------------------------------
(* _handle_session and _start_new_session, run by thread t *)

\* variant of OpensSession that lets any chunk open a session
OpensSessionAlways(c) == c \in 1..Len(produced)

\* line 240: a chunk opens a session only if it is not silent
OpensSession(c) == ~produced[c].is_silent

\* lines 226-245 and 262-265: update the silence count, then either open a
\* session on a non-silent chunk or append the chunk to the current session
HandleSession(t) ==
    /\ pc[t] = "handle"
    /\ LET c == loc[t].chunk
           silent == produced[c].is_silent
       IN /\ consecutive_silence_count' =
                 IF silent THEN consecutive_silence_count + 1 ELSE 0
          /\ run_switch' = IF silent THEN run_switch ELSE FALSE
          /\ IF current_session = 0
             THEN IF OpensSession(c)
                  THEN LET s == Len(sessions) + 1
                       IN /\ sessions' =
                                AddChunk(Append(sessions,
                                    NewSession(produced[c].timestamp)), s, c)
                          /\ store' = Append(store, Absent)
                          /\ current_session' = s
                          /\ loc' = [loc EXCEPT ![t].sess = s]
                          /\ pc' = [pc EXCEPT ![t] = "start_save"]
                  ELSE /\ pc' = [pc EXCEPT ![t] = Ret(t)]
                       /\ UNCHANGED <<sessions, store, current_session, loc>>
             ELSE /\ sessions' = AddChunk(sessions, current_session, c)
                  /\ loc' = [loc EXCEPT ![t].sess = current_session]
                  /\ pc' = [pc EXCEPT ![t] = "hs_save"]
                  /\ UNCHANGED <<store, current_session>>
    /\ UNCHANGED <<cfg, env, call, watch, files, ret, clock, is_recording, stream, device, stop_event,
                   lock, buffer, chunk_count, total_duration,
                   last_chunk_time, produced, events, last_device_scan_time,
                   scans, closures, device_events, delivered>>

\* lines 266-296: persist the new session; when the opening chunk has no
\* speech remove its file and discard the session at once, else call the
\* on_session_created subscribers
StartNewSessionSave(t) ==
    /\ pc[t] = "start_save"
    /\ \E ok \in StoreOutcomes, r \in Raisers :
          IF ~ok
          THEN /\ pc' = [pc EXCEPT ![t] = Raised(t)]
               /\ lock' = Released(t)
               /\ UNCHANGED <<store, events, loc, files>>
          ELSE /\ store' = SaveSession(store, sessions, loc[t].sess)
               /\ IF produced[loc[t].chunk].speech_ratio < SpeechMinPercent
                  THEN /\ files' = files \ {produced[loc[t].chunk].file_path}
                       /\ loc' = [loc EXCEPT ![t].cret = "handle_ret"]
                       /\ pc' = [pc EXCEPT ![t] = "complete"]
                       /\ UNCHANGED events
                  ELSE /\ events' = Append(events,
                                  Event("session_created", loc[t].sess, t, r))
                       /\ pc' = [pc EXCEPT ![t] = Ret(t)]
                       /\ UNCHANGED <<loc, files>>
               /\ UNCHANGED lock
    /\ UNCHANGED <<cfg, env, call, watch, ret, clock, is_recording, stream, device, stop_event,
                   buffer, chunk_count, total_duration,
                   last_chunk_time, current_session,
                   consecutive_silence_count, sessions, produced,
                   last_device_scan_time, scans, closures, run_switch,
                   delivered,
                   device_events>>

\* variant of HysteresisFires that asks for one more silent chunk
HysteresisFiresStrict == consecutive_silence_count > Threshold

\* variant of HysteresisFires that is switched off by a zero threshold
HysteresisFiresNonZero ==
    Threshold > 0 /\ consecutive_silence_count >= Threshold

\* line 249: enough consecutive silent chunks end the session
HysteresisFires == consecutive_silence_count >= Threshold

\* lines 246-250: persist the session, then test the silence hysteresis
HandleSessionSave(t) ==
    /\ pc[t] = "hs_save"
    /\ \E ok \in StoreOutcomes :
          IF ~ok
          THEN /\ pc' = [pc EXCEPT ![t] = Raised(t)]
               /\ lock' = Released(t)
               /\ UNCHANGED <<store, loc>>
          ELSE /\ store' = SaveSession(store, sessions, loc[t].sess)
               /\ IF HysteresisFires
                  THEN /\ loc' = [loc EXCEPT ![t].cret = "hs_switch"]
                       /\ pc' = [pc EXCEPT ![t] = "complete"]
                  ELSE /\ pc' = [pc EXCEPT ![t] = "hs_switch"]
                       /\ UNCHANGED loc
               /\ UNCHANGED lock
    /\ UNCHANGED <<cfg, env, call, watch, files, ret, clock, is_recording, stream, device, stop_event,
                   buffer, chunk_count, total_duration,
                   last_chunk_time, current_session,
                   consecutive_silence_count, sessions, produced, events,
                   last_device_scan_time, scans, closures, run_switch,
                   device_events, delivered>>

\* the condition of lines 253-257
WantsScan(t) ==
    /\ cfg.auto_switch
    /\ produced[loc[t].chunk].is_silent
    /\ consecutive_silence_count * cfg.chunk_duration_seconds
           >= cfg.silence_timeout_for_switch

\* lines 253-258 with _check_alternative_devices (lines 495-505): a scan
\* thread is spawned unless one was spawned less than ScanInterval ago
HandleSessionSwitch(t) ==
    /\ pc[t] = "hs_switch"
    /\ IF WantsScan(t) /\ ~(clock - last_device_scan_time < ScanInterval)
       THEN /\ last_device_scan_time' = clock
            /\ scans' = scans + 1
       ELSE UNCHANGED <<last_device_scan_time, scans>>
    /\ pc' = [pc EXCEPT ![t] = Ret(t)]
    /\ UNCHANGED <<cfg, env, call, watch, files, ret, clock, is_recording, stream, device, stop_event,
                   lock, buffer, chunk_count, total_duration,
                   last_chunk_time, current_session,
                   consecutive_silence_count, sessions, store, produced,
                   events, loc, closures, run_switch, device_events,
                   delivered>>

----------------------------------------------------------------------------
(* _complete_current_session, run by thread t *)

Closure(s, t, fired) ==
    [sid |-> s, by |-> t, via |-> loc[t].cret, fired |-> fired,
     tail |-> TailSilent(sessions[s].chunks),
     switched |-> run_switch]

\* lines 300-318: delete a session that is too short; else mark it
\* completed, persist it and call the on_session_completed subscribers
CompleteCurrentSession(t) ==
    /\ pc[t] = "complete"
    /\ IF current_session = 0
       THEN /\ pc' = [pc EXCEPT ![t] = AfterComplete(t, loc[t].cret)]
            /\ UNCHANGED <<sessions, store, events, closures, lock>>
       ELSE LET s == current_session
            IN \E ok \in StoreOutcomes, r \in Raisers :
                  IF ~ok
                  THEN /\ sessions' = IF TooShort(s) THEN sessions
                                      ELSE CompleteSession(sessions, s)
                       /\ pc' = [pc EXCEPT ![t] = Raised(t)]
                       /\ lock' = Released(t)
                       /\ UNCHANGED <<store, events, closures>>
                  ELSE /\ IF TooShort(s)
                          THEN /\ store' = DeleteSession(store, s)
                               /\ closures' =
                                     Append(closures, Closure(s, t, FALSE))
                               /\ UNCHANGED <<sessions, events>>
                          ELSE /\ sessions' = CompleteSession(sessions, s)
                               /\ store' = SaveSession(store, sessions', s)
                               /\ events' = Append(events,
                                         Event("session_completed", s, t, r))
                               /\ closures' =
                                     Append(closures, Closure(s, t, TRUE))
                       /\ pc' = [pc EXCEPT ![t] = "complete_reset"]
                       /\ UNCHANGED lock
    /\ UNCHANGED <<cfg, env, call, watch, files, ret, clock, is_recording, stream, device, stop_event,
                   buffer, chunk_count, total_duration,
                   last_chunk_time, current_session,
                   consecutive_silence_count, produced, loc,
                   last_device_scan_time, scans, run_switch, delivered,
                   device_events>>

\* lines 320-321, reached when the subscribers have returned
CompleteReset(t) ==
    /\ pc[t] = "complete_reset"
    /\ current_session' = 0
    /\ consecutive_silence_count' = 0
    /\ pc' = [pc EXCEPT ![t] = AfterComplete(t, loc[t].cret)]
    /\ UNCHANGED <<cfg, env, call, watch, files, ret, clock, is_recording, stream, device, stop_event,
                   lock, buffer, chunk_count, total_duration,
                   last_chunk_time, sessions, store, produced, events, loc,
                   last_device_scan_time, scans, closures, run_switch,
                   device_events, delivered>>

----------------------------------------------------------------------------
(* stop() *)

\* lines 447-451; with a scripted stream stop() is called after the feed
StopBegin ==
    /\ is_recording
    /\ pc["stopper"] = "idle"
    /\ env.tone > 0 => delivered = env.frames
    /\ stop_event' = TRUE
    /\ pc' = [pc EXCEPT !["stopper"] = "join"]
    /\ UNCHANGED <<cfg, env, call, watch, files, ret, clock, is_recording, stream, device, lock, buffer,
                   chunk_count, total_duration, last_chunk_time,
                   current_session, consecutive_silence_count, sessions,
                   store, produced, events, loc, last_device_scan_time,
                   scans, closures, run_switch, device_events, delivered>>

\* line 453: join(timeout=5.0) returns when the chunker has exited, or on
\* the timeout while the chunker is still busy with a chunk; line 455: the
\* monitor thread, which tests the stop event every second, is joined
StopJoin ==
    /\ pc["stopper"] = "join"
    /\ \/ pc["chunker"] \in {"exited", "crashed"}
       \/ env.join = "late" /\ pc["chunker"] \in MidIteration
    /\ pc' = [pc EXCEPT !["stopper"] = "flush", !["monitor"] = "exited"]
    /\ UNCHANGED <<cfg, env, call, watch, files, ret, clock, is_recording, stream, device, stop_event,
                   lock, buffer, chunk_count, total_duration,
                   last_chunk_time, current_session,
                   consecutive_silence_count, sessions, store, produced,
                   events, loc, last_device_scan_time, scans, closures,
                   run_switch, device_events, delivered>>

\* lines 458-462: take the lock; a remainder longer than one second is
\* saved as a last chunk, a shorter one is dropped
StopFlush ==
    /\ pc["stopper"] = "flush"
    /\ lock = "free"
    /\ IF buffer > 0 /\ buffer > cfg.sample_rate
       THEN /\ lock' = "stopper"
            /\ loc' = [loc EXCEPT !["stopper"] =
                          [NoLocals EXCEPT !.data = buffer,
                                           !.off = delivered - buffer]]
            /\ pc' = [pc EXCEPT !["stopper"] = "save"]
            /\ UNCHANGED buffer
       ELSE /\ buffer' = 0
            /\ loc' = [loc EXCEPT !["stopper"] =
                          [NoLocals EXCEPT !.cret = "close"]]
            /\ pc' = [pc EXCEPT !["stopper"] = "complete"]
            /\ UNCHANGED lock
    /\ UNCHANGED <<cfg, env, call, watch, files, ret, clock, is_recording, stream, device, stop_event,
                   chunk_count, total_duration, last_chunk_time,
                   current_session, consecutive_silence_count, sessions,
                   store, produced, events, last_device_scan_time, scans,
                   closures, run_switch, device_events, delivered>>

\* lines 465-468: empty the buffer, release the lock, go on to complete the
\* current session
StopFlushDone ==
    /\ pc["stopper"] = "flush_done"
    /\ buffer' = 0
    /\ lock' = "free"
    /\ loc' = [loc EXCEPT !["stopper"].cret = "close"]
    /\ pc' = [pc EXCEPT !["stopper"] = "complete"]
    /\ UNCHANGED <<cfg, env, call, watch, files, ret, clock, is_recording, stream, device, stop_event,
                   chunk_count, total_duration, last_chunk_time,
                   current_session, consecutive_silence_count, sessions,
                   store, produced, events, last_device_scan_time, scans,
                   closures, run_switch, device_events, delivered>>

\* outcomes of lines 471-474: the stream is stopped and closed, or
\* stream.stop() raises, or stream.close() raises
CloseOutcomes ==
    IF env.audio = "failing" THEN {"closed", "stop_raised", "close_raised"}
    ELSE {"closed"}

\* lines 471-476
StopClose ==
    /\ pc["stopper"] = "close"
    /\ \E outcome \in CloseOutcomes :
          IF outcome = "closed"
          THEN /\ stream' = "none"
               /\ is_recording' = FALSE
               /\ pc' = [pc EXCEPT !["stopper"] = "done"]
          ELSE /\ stream' = IF outcome = "stop_raised" THEN stream
                            ELSE "unstarted"
               /\ pc' = [pc EXCEPT !["stopper"] = "raised"]
               /\ UNCHANGED is_recording
    /\ UNCHANGED <<cfg, env, call, watch, files, ret, clock, device, stop_event, lock, buffer, chunk_count,
                   total_duration, last_chunk_time, current_session,
                   consecutive_silence_count, sessions, store, produced,
                   events, loc, last_device_scan_time, scans, closures,
                   run_switch, device_events, delivered>>

----------------------------------------------------------------------------
(* _scan_and_switch and switch_device, run by a scan thread *)

\* device_info['name'] of host device d
DeviceName(d) == <<"name", d>>

\* one firing of on_device_changed(index, name) by the thread that runs
\* switch_device; chunks: the chunks produced before it
DeviceEvent(d, raisers) ==
    [index |-> d, name |-> DeviceName(d), by |-> "caller",
     chunks |-> Len(produced),
     heard |-> Invoke(SubscriberList, raisers), raised |-> raisers]

\* outcomes of lines 553-567: the new stream runs and its name is known;
\* sd.InputStream raises; stream.start() raises; sd.query_devices raises
SwitchOutcomes ==
    IF env.audio = "failing"
    THEN {"switched", "not_created", "not_started", "no_name"}
    ELSE {"switched", "not_created"}

\* lines 541-550: what becomes of the stream that switch_device replaces.
\* stop() or close() raising is logged and the stream is left as it was
OldStreamOutcomes ==
    IF stream = "none" THEN {"absent"}
    ELSE IF env.audio = "failing" THEN {"closed", "left_open"}
    ELSE {"closed"}

\* the parameters start() (lines 416-423) and switch_device (lines 555-562)
\* pass to sd.InputStream, besides the device
Channels == 1

Blocksize == 1024

StreamParamsAtStart ==
    [samplerate |-> cfg.sample_rate, channels |-> Channels,
     dtype |-> "float32", blocksize |-> Blocksize]

StreamParamsAtSwitch ==
    [samplerate |-> cfg.sample_rate, channels |-> Channels,
     dtype |-> "float32", blocksize |-> Blocksize]

\* variant of CountAfterSwitch that keeps the silence count
CountKeptBySwitch == consecutive_silence_count

\* line 572
CountAfterSwitch == 0

\* variant of SessionAfterSwitch that drops the current session
SessionClearedBySwitch == IF current_session # 0 THEN 0 ELSE current_session

\* lines 537-586 assign no field of self.state but
\* consecutive_silence_count
SessionAfterSwitch == current_session

\* switch_device(new): the old stream is closed and self._stream set to
\* None, self.device is assigned; when the new stream runs the silence
\* count is reset, the on_device_changed subscribers are called and True
\* is returned; any exception on the way returns False
SwitchDevice(new, scan) ==
    /\ device' = new
    /\ current_session' = SessionAfterSwitch
    /\ \E outcome \in SwitchOutcomes, old \in OldStreamOutcomes,
          r \in Raisers :
          IF outcome = "switched"
          THEN /\ stream' = "open"
               /\ consecutive_silence_count' = CountAfterSwitch
               /\ run_switch' = TRUE
               /\ device_events' = Append(device_events, DeviceEvent(new, r))
               /\ ret' = [ret EXCEPT !.switch = "True", !.old = old,
                                     !.scan = scan]
          ELSE /\ stream' = CASE outcome = "not_created" -> "none"
                              [] outcome = "not_started" -> "unstarted"
                              [] outcome = "no_name" -> "open"
               /\ ret' = [ret EXCEPT !.switch = "False", !.old = old,
                                     !.scan = scan]
               /\ UNCHANGED <<consecutive_silence_count, run_switch,
                              device_events>>

\* the keyword arguments _scan_and_switch passes to
\* find_active_audio_device (lines 520-526)
ScanKeywords ==
    {"probe_duration", "threshold", "exclude_keywords", "exclude_indices",
     "verbose"}

\* variant of FindParameters that declares exclude_indices
FindParametersWithIndices ==
    {"probe_duration", "threshold", "prefer_virtual", "exclude_keywords",
     "exclude_indices", "verbose"}

\* the parameters find_active_audio_device declares (auto_detect.py,
\* lines 109-115)
FindParameters ==
    {"probe_duration", "threshold", "prefer_virtual", "exclude_keywords",
     "verbose"}

\* the devices of the host as list_devices reports them (devices.py, lines
\* 75-106), with the level a probe measures on each; a name is the set of
\* its words
HostTable ==
    [d \in Devices |->
        IF d = 1
        THEN [name |-> {"line", "in"}, can_capture |-> TRUE,
              virtual |-> FALSE, rms |-> 0]
        ELSE [name |-> {"loopback"}, can_capture |-> TRUE,
              virtual |-> TRUE, rms |-> 2]]

\* line 523
ExcludeKeywords == {"microphone", "mic", "webcam"}

\* line 522, in the unit of the rms levels of the model
ScanThreshold == 1

\* scan order of find_active_audio_device: virtual and loopback devices
\* first, then the others, each group in the order of list_devices
ScannedBefore(d, e) ==
    \/ HostTable[d].virtual /\ ~HostTable[e].virtual
    \/ HostTable[d].virtual = HostTable[e].virtual /\ d < e

\* find_active_audio_device called with the keyword arguments kw
\* (auto_detect.py, lines 109-205): a keyword the function does not declare
\* raises TypeError; else the capture devices whose name holds no excluded
\* keyword are probed and the one with the highest rms above the threshold
\* is returned, the first scanned among equals, or None (0)
FindActiveAudioDevice(kw, exclude_keywords, threshold) ==
    IF ~(kw \subseteq FindParameters)
    THEN [raised |-> TRUE, device |-> 0]
    ELSE LET input == {d \in Devices : HostTable[d].can_capture}
             filtered == {d \in input :
                             HostTable[d].name \cap exclude_keywords = {}}
             active == {d \in filtered : HostTable[d].rms > threshold}
         IN [raised |-> FALSE,
             device |->
                 IF active = {} THEN 0
                 ELSE CHOOSE d \in active :
                         \A e \in active \ {d} :
                            \/ HostTable[d].rms > HostTable[e].rms
                            \/ /\ HostTable[d].rms = HostTable[e].rms
                               /\ ScannedBefore(d, e)]

\* how a scan ended, and whether the recorder was still recording then
ScanEnd(found) ==
    <<IF found.raised THEN "raised"
      ELSE IF found.device = 0 \/ found.device = device THEN "no_device"
      ELSE "switch_device",
      is_recording>>

\* _scan_and_switch: the result of find_active_audio_device, when it is a
\* device other than the current one, goes to switch_device (lines
\* 528-530); an exception is logged by the except branch (lines 534-535)
ScanAndSwitch ==
    /\ scans > 0
    /\ scans' = scans - 1
    /\ LET found == FindActiveAudioDevice(ScanKeywords, ExcludeKeywords,
                                          ScanThreshold)
       IN IF found.raised \/ found.device = 0 \/ found.device = device
          THEN /\ ret' = [ret EXCEPT !.scan = ScanEnd(found)]
               /\ UNCHANGED <<device, stream, consecutive_silence_count,
                              run_switch, device_events, current_session>>
          ELSE SwitchDevice(found.device, ScanEnd(found))
    /\ UNCHANGED <<cfg, env, call, watch, files, clock, is_recording, stop_event, lock, buffer,
                   chunk_count, total_duration, last_chunk_time,
                   sessions, store, produced, events, pc,
                   loc, last_device_scan_time, closures, delivered>>

\* switch_device(new) called by a client of the recorder while it records
ClientSwitch ==
    /\ is_recording
    /\ Len(device_events) < MaxSwitches
    /\ \E new \in Devices \ {device} : SwitchDevice(new, ret.scan)
    /\ UNCHANGED <<cfg, env, call, watch, files, clock, is_recording, stop_event, lock, buffer,
                   chunk_count, total_duration, last_chunk_time,
                   sessions, store, produced, events, pc,
                   loc, last_device_scan_time, scans, closures, delivered>>

----------------------------------------------------------------------------
(* Device resolution of start(), lines 391-412 *)

\* every variable but call and watch
recorder ==
    <<cfg, env, files, ret, clock, is_recording, stream, device, stop_event,
      lock, buffer, chunk_count, total_duration, last_chunk_time,
      current_session, consecutive_silence_count, sessions, store, produced,
      events, pc, loc, last_device_scan_time, scans, device_events,
      delivered, closures, run_switch>>

\* the names devices.py defines
DevicesModule ==
    {"AudioDevice", "list_devices", "list_capture_devices",
     "list_loopback_devices", "get_device_by_index", "get_device_by_name",
     "find_best_loopback_device", "get_default_input_device",
     "get_default_output_device", "print_devices"}

\* from .devices import name raises ImportError for a name that
\* devices.py does not define
ImportRaises(name) == name \notin DevicesModule

\* get_device_by_name (devices.py, lines 128-140) on the device list
\* names: the index of the first device whose name contains the word, or
\* None (0)
GetDeviceByName(names, word) ==
    IF \E i \in 1..Len(names) : word \in names[i]
    THEN CHOOSE i \in 1..Len(names) :
            /\ word \in names[i]
            /\ \A k \in 1..(i - 1) : word \notin names[k]
    ELSE 0

\* the device lists of a host, before and after a re-enumeration
DeviceLists ==
    {<<{"line", "in"}, {"loopback"}>>, <<{"loopback"}, {"line", "in"}>>}

\* config.device.preferred_device: unset (""), or a word
PreferredDevices == {"", "line", "loopback", "usb"}

\* the arguments of a device resolution: the device list of the host,
\* preferred_device, the device index given to the constructor (0: None),
\* auto_detect, and what auto_select_capture_device would return (0: None)
ResolveInputs ==
    [names : DeviceLists, preferred : PreferredDevices, device : 0..2,
     auto_detect : BOOLEAN, auto : 0..2]

\* lines 393-412: self.device after the lookup by name, and the index
\* given to sd.InputStream (0: None, the host default).  The import at
\* line 395 raises inside the try block, whose except branch logs it.
ResolveDevice(in) ==
    LET found == IF in.preferred = "" THEN 0
                 ELSE IF ImportRaises("find_device_by_name") THEN 0
                 ELSE GetDeviceByName(in.names, in.preferred)
        dev == IF found # 0 THEN found ELSE in.device
        idx == IF dev = 0 /\ in.auto_detect /\ in.auto # 0
               THEN in.auto ELSE dev
    IN [device |-> dev, opened |-> idx]

ResolveCall ==
    /\ \E in \in ResolveInputs :
          call' = [op |-> "resolve", in |-> in, out |-> ResolveDevice(in)]
    /\ UNCHANGED <<recorder, watch>>

NextResolve == ResolveCall

----------------------------------------------------------------------------
(* Session documents and sessions.db (session.py).  None is <<>>, a value
   that may be None is <<v>>. *)

\* datetime.isoformat and datetime.fromisoformat
IsoFormat(t) == <<"iso", t>>

FromIsoFormat(x) == x[2]

\* json.dumps and json.loads of a document of strings, numbers, booleans,
\* None, lists and dicts with string keys
JsonDumps(d) == <<"json", d>>

JsonLoads(x) == x[2]

\* data.get(key, default)
DictGet(d, key, default) == IF key \in DOMAIN d THEN d[key] ELSE default

\* AudioChunk.to_dict (lines 29-39)
ChunkToDict(c) ==
    [file_path |-> c.file_path, timestamp |-> IsoFormat(c.timestamp),
     duration_seconds |-> c.duration_seconds, index |-> c.index,
     rms_level |-> c.rms_level, is_silent |-> c.is_silent,
     speech_ratio |-> c.speech_ratio]

\* AudioChunk.from_dict (lines 42-52)
ChunkFromDict(d) ==
    [file_path |-> d.file_path, timestamp |-> FromIsoFormat(d.timestamp),
     duration_seconds |-> d.duration_seconds, index |-> d.index,
     rms_level |-> DictGet(d, "rms_level", 0),
     is_silent |-> DictGet(d, "is_silent", FALSE),
     speech_ratio |-> DictGet(d, "speech_ratio", 0)]

\* Session.duration_seconds and Session.avg_rms of a list of AudioChunk
\* objects (lines 70-88); the average is rounded down
RECURSIVE SumOver(_, _)
SumOver(cs, field) ==
    IF cs = <<>> THEN 0 ELSE cs[1][field] + SumOver(Tail(cs), field)

NonSilent(cs) == SelectSeq(cs, LAMBDA c : ~c.is_silent)

AvgRms(cs) ==
    IF NonSilent(cs) = <<>> THEN 0
    ELSE SumOver(NonSilent(cs), "rms_level") \div Len(NonSilent(cs))

\* Session.to_dict (lines 112-129)
SessionToDict(x) ==
    [session_id |-> x.session_id,
     start_time |-> IsoFormat(x.start_time),
     end_time |-> IF x.end_time # <<>>
                  THEN <<IsoFormat(x.end_time[1])>> ELSE <<>>,
     chunks |-> [i \in 1..Len(x.chunks) |-> ChunkToDict(x.chunks[i])],
     status |-> x.status,
     tags |-> x.tags,
     transcription_status |-> x.transcription_status,
     transcription_path |-> x.transcription_path,
     notes |-> x.notes,
     title |-> x.title,
     summary |-> x.summary,
     duration_seconds |-> SumOver(NonSilent(x.chunks), "duration_seconds"),
     total_chunks |-> Len(x.chunks),
     avg_rms |-> AvgRms(x.chunks)]

\* variant of SessionFromDict without line 146
SessionFromDictNoChunks(d) ==
    [session_id |-> d.session_id,
     start_time |-> FromIsoFormat(d.start_time),
     end_time |-> IF DictGet(d, "end_time", <<>>) # <<>>
                  THEN <<FromIsoFormat(d.end_time[1])>> ELSE <<>>,
     chunks |-> <<>>,
     status |-> DictGet(d, "status", "completed"),
     tags |-> DictGet(d, "tags", <<>>),
     transcription_status |-> DictGet(d, "transcription_status", "pending"),
     transcription_path |-> DictGet(d, "transcription_path", <<>>),
     notes |-> DictGet(d, "notes", ""),
     title |-> DictGet(d, "title", ""),
     summary |-> DictGet(d, "summary", "")]

\* Session.from_dict (lines 132-147)
SessionFromDict(d) ==
    [session_id |-> d.session_id,
     start_time |-> FromIsoFormat(d.start_time),
     end_time |-> IF DictGet(d, "end_time", <<>>) # <<>>
                  THEN <<FromIsoFormat(d.end_time[1])>> ELSE <<>>,
     chunks |-> LET cs == DictGet(d, "chunks", <<>>)
                IN [i \in 1..Len(cs) |-> ChunkFromDict(cs[i])],
     status |-> DictGet(d, "status", "completed"),
     tags |-> DictGet(d, "tags", <<>>),
     transcription_status |-> DictGet(d, "transcription_status", "pending"),
     transcription_path |-> DictGet(d, "transcription_path", <<>>),
     notes |-> DictGet(d, "notes", ""),
     title |-> DictGet(d, "title", ""),
     summary |-> DictGet(d, "summary", "")]

\* the row save_session writes (lines 214-226)
SessionRow(x) ==
    [session_id |-> x.session_id,
     start_time |-> IsoFormat(x.start_time),
     end_time |-> IF x.end_time # <<>>
                  THEN <<IsoFormat(x.end_time[1])>> ELSE <<>>,
     status |-> x.status,
     tags |-> JsonDumps(x.tags),
     transcription_status |-> x.transcription_status,
     transcription_path |-> x.transcription_path,
     notes |-> x.notes,
     title |-> x.title,
     summary |-> x.summary,
     data |-> JsonDumps(SessionToDict(x))]

\* INSERT OR REPLACE into a table whose primary key is session_id (lines
\* 174 and 209-227): the row with that key, if any, is replaced
InsertOrReplace(table, row) ==
    {r \in table : r.session_id # row.session_id} \cup {row}

\* get_session (lines 231-242): the first row with that id, or None
GetSession(table, id) ==
    IF \E r \in table : r.session_id = id
    THEN <<SessionFromDict(JsonLoads(
             (CHOOSE r \in table : r.session_id = id).data))>>
    ELSE <<>>

\* AudioChunk objects of the sessions that are saved
ChunkValues ==
    {[file_path |-> "c1", timestamp |-> 5, duration_seconds |-> 2,
      index |-> 1, rms_level |-> 2, is_silent |-> FALSE,
      speech_ratio |-> 50],
     [file_path |-> "c2", timestamp |-> 7, duration_seconds |-> 2,
      index |-> 2, rms_level |-> 0, is_silent |-> TRUE,
      speech_ratio |-> 0]}

\* the empty chunk list and the two chunks in either order
ChunkLists ==
    {<<>>} \cup {l \in ChunkValues \X ChunkValues : l[1] # l[2]}

\* Session objects
SessionValues ==
    [session_id : {"sess_a", "sess_b"},
     start_time : {5},
     end_time : {<<>>, <<9>>},
     chunks : ChunkLists,
     status : {"recording", "completed"},
     tags : {<<"tag">>},
     transcription_status : {"pending"},
     transcription_path : {<<>>},
     notes : {""},
     title : {""},
     summary : {""}]

----------------------------------------------------------------------------
(* The silence watch (chunked_recorder.py): the audio callback, the chunker
   and the monitor thread of a recorder that is started and not stopped, as
   far as they read and write last_sound_time, _last_device_scan_time and
   the session state that decides whether a scan is requested.  One frame
   is one second of audio, and the stream does not end. *)

\* the age x one second later, counted up to cap; -1 (no such time) stays
Older(x, cap) == IF x < 0 THEN x ELSE IF x < cap THEN x + 1 ELSE cap

\* the count of silent chunks in a row, counted up to the first value
\* that passes both tests made on it (lines 249 and 256)
SilenceCap ==
    IF Threshold > 1 THEN Threshold ELSE 1

\* start() returning True (lines 385-443): the monitor thread starts its
\* first sleep
WatchStart ==
    /\ ~watch.is_recording
    /\ watch' = [watch EXCEPT !.is_recording = TRUE, !.uptime = 0,
                              !.slept = FALSE]
    /\ UNCHANGED <<recorder, call>>

\* _audio_callback (lines 85-103) for the next second of audio: a frame
\* above silence_threshold sets last_sound_time to the clock.  The chunker
\* has cut a full chunk off the buffer before the next second arrives.
WatchAudioCallback ==
    /\ watch.is_recording
    /\ watch.buffer < SamplesPerChunk
    /\ \E above \in BOOLEAN :
          watch' = [watch EXCEPT
                       !.uptime = Older(@, cfg.silence_timeout_for_switch + 1),
                       !.buffer = @ + 1,
                       !.loud = @ \/ above,
                       !.last_sound_time =
                           IF above THEN 0
                           ELSE Older(@, cfg.silence_timeout_for_switch + 1),
                       !.last_device_scan_time = Older(@, ScanInterval + 1),
                       !.scan_started = Older(@, ScanInterval),
                       !.slept = TRUE,
                       !.probe = [t \in ProbeThreads |->
                                    [pc |-> @[t].pc,
                                     read |-> IF @[t].pc = "set"
                                              THEN Older(@[t].read,
                                                         ScanInterval + 1)
                                              ELSE 0]]]
    /\ UNCHANGED <<recorder, call>>

\* whether the chunk is found silent with n silent chunks in a row calls
\* for a scan (lines 253-257)
WatchWantsScan(silent, n) ==
    /\ cfg.auto_switch
    /\ silent
    /\ n * cfg.chunk_duration_seconds >= cfg.silence_timeout_for_switch

\* the chunker cuts a chunk (lines 354-383), saves it and enters
\* _handle_session, which updates the count of silent chunks first (lines
\* 230-234).  A chunk without a frame above the threshold is silent (line
\* 183).
WatchCountSilence ==
    /\ watch.probe["chunker"].pc = "idle"
    /\ watch.buffer >= SamplesPerChunk
    /\ \E silent \in (IF watch.loud THEN BOOLEAN ELSE {TRUE}) :
          watch' = [watch EXCEPT
                       !.buffer = 0, !.loud = FALSE, !.silent = silent,
                       !.consecutive_silence_count =
                           IF ~silent THEN 0
                           ELSE IF @ < SilenceCap THEN @ + 1 ELSE SilenceCap,
                       !.probe["chunker"].pc = "append"]
    /\ UNCHANGED <<recorder, call>>

\* lines 239-246: without a current session a non-silent chunk opens one
\* and _handle_session returns; else the chunk is appended to the session
WatchAppend ==
    /\ watch.probe["chunker"].pc = "append"
    /\ IF ~watch.current_session
       THEN watch' = [watch EXCEPT !.current_session = ~watch.silent,
                                  !.tail = 0, !.silent = FALSE,
                                  !.probe["chunker"].pc = "idle"]
       ELSE watch' = [watch EXCEPT
                         !.tail = IF ~watch.silent THEN 0
                                  ELSE IF @ <= SilenceCap THEN @ + 1 ELSE @,
                         !.probe["chunker"].pc = "hysteresis"]
    /\ UNCHANGED <<recorder, call>>

\* lines 249-258: enough silent chunks in a row end the session, which
\* resets the count (lines 320-321); then the count as it is decides
\* whether _check_alternative_devices is called
WatchHysteresis ==
    /\ watch.probe["chunker"].pc = "hysteresis"
    /\ LET ends == watch.consecutive_silence_count >= Threshold
           n == IF ends THEN 0 ELSE watch.consecutive_silence_count
           wants == WatchWantsScan(watch.silent, n)
       IN watch' = [watch EXCEPT
                       !.current_session = ~ends,
                       !.consecutive_silence_count = n,
                       !.tail = IF ends THEN 0 ELSE @,
                       !.silent = FALSE,
                       !.requested = @ \/ wants,
                       !.probe["chunker"].pc =
                           IF wants THEN "test" ELSE "idle"]
    /\ UNCHANGED <<recorder, call>>

\* a switch_device call of a client that succeeds (lines 537-586): of the
\* fields of the watch it assigns consecutive_silence_count (line 572)
WatchSwitchDevice ==
    /\ watch.is_recording
    /\ watch' = [watch EXCEPT
                    !.consecutive_silence_count = CountAfterSwitch,
                    !.tail = 0]
    /\ UNCHANGED <<recorder, call>>

\* _check_alternative_devices, lines 498-500: read the clock and return
\* if the last scan is less than ScanInterval old
CheckAlternativeDevicesTest(t) ==
    /\ watch.probe[t].pc = "test"
    /\ watch' = [watch EXCEPT
                    !.probe[t].pc =
                        IF watch.last_device_scan_time < ScanInterval
                        THEN "idle" ELSE "set"]
    /\ UNCHANGED <<recorder, call>>

\* _check_alternative_devices, lines 502-505: store the clock value that
\* was read and start the _scan_and_switch thread
CheckAlternativeDevicesSet(t) ==
    /\ watch.probe[t].pc = "set"
    /\ watch' = [watch EXCEPT
                    !.last_device_scan_time = watch.probe[t].read,
                    !.too_soon = @ \/ (/\ watch.scan_started >= 0
                                       /\ watch.scan_started < ScanInterval),
                    !.scan_started = 0,
                    !.probe[t] = [pc |-> "idle", read |-> 0]]
    /\ UNCHANGED <<recorder, call>>

\* whether the monitor thread requests a scan (lines 336-346)
MonitorWantsScan ==
    /\ watch.is_recording
    /\ watch.last_sound_time # -1
    /\ watch.last_sound_time > cfg.silence_timeout_for_switch
    /\ cfg.auto_switch
    /\ watch.last_device_scan_time > ScanInterval

\* one iteration of _monitor_silence_loop after its sleep of one second
\* (lines 332-351): when it requests a scan it starts a thread that runs
\* _check_alternative_devices and moves last_sound_time to half a timeout
\* ago
MonitorSilenceLoop ==
    /\ watch.is_recording
    /\ watch.slept
    /\ IF MonitorWantsScan
       THEN /\ watch.probe["spawned"].pc = "idle"
            /\ watch' = [watch EXCEPT
                            !.slept = FALSE,
                            !.requested = TRUE,
                            !.probe["spawned"].pc = "test",
                            !.last_sound_time =
                                cfg.silence_timeout_for_switch \div 2]
       ELSE watch' = [watch EXCEPT !.slept = FALSE]
    /\ UNCHANGED <<recorder, call>>

NextWatch ==
    \/ WatchStart
    \/ WatchAudioCallback
    \/ WatchCountSilence
    \/ WatchAppend
    \/ WatchHysteresis
    \/ WatchSwitchDevice
    \/ \E t \in ProbeThreads : CheckAlternativeDevicesTest(t)
    \/ \E t \in ProbeThreads : CheckAlternativeDevicesSet(t)
    \/ MonitorSilenceLoop

\* every thread that can take a step is scheduled in the end, and the
\* stream delivers its audio
FairWatch ==
    /\ WF_vars(WatchStart)
    /\ WF_vars(WatchAudioCallback)
    /\ WF_vars(WatchCountSilence)
    /\ WF_vars(WatchAppend)
    /\ WF_vars(WatchHysteresis)
    /\ \A t \in ProbeThreads :
          WF_vars(CheckAlternativeDevicesTest(t))
              /\ WF_vars(CheckAlternativeDevicesSet(t))
    /\ WF_vars(MonitorSilenceLoop)

\* Session.from_dict(s.to_dict())
RoundTripCall ==
    /\ \E x \in SessionValues :
          call' = [op |-> "round_trip", in |-> x,
                   out |-> SessionFromDict(SessionToDict(x))]
    /\ UNCHANGED <<recorder, watch>>

\* save_session(x) on the table left by the calls before it, then
\* get_session(x.session_id)
SaveGetCall ==
    /\ \E x \in SessionValues :
          LET before == IF call.op = "save_get" THEN call.table ELSE {}
              after == InsertOrReplace(before, SessionRow(x))
          IN call' = [op |-> "save_get", in |-> x, before |-> before,
                      table |-> after,
                      out |-> GetSession(after, x.session_id)]
    /\ UNCHANGED <<recorder, watch>>

NextStore == RoundTripCall \/ SaveGetCall

\* AudioChunk objects of the sessions that are exported: the two above and
\* a second chunk that is not silent
ExportChunkValues ==
    ChunkValues \cup
    {[file_path |-> "c3", timestamp |-> 9, duration_seconds |-> 2,
      index |-> 3, rms_level |-> 3, is_silent |-> FALSE,
      speech_ratio |-> 40]}

\* the empty chunk list and the three chunks in any order
ExportChunkLists ==
    {l \in UNION {[1..n -> ExportChunkValues] : n \in {0, 3}} :
        \A i, j \in 1..Len(l) : i # j => l[i] # l[j]}

\* the samples in the WAV file of a chunk
WavFrames(path) ==
    IF path = "c1" THEN <<11, 12>>
    ELSE IF path = "c2" THEN <<0, 0>>
    ELSE <<31, 32>>

\* what export_session finds at a chunk's path: a WAV file, nothing (line
\* 358), or a file wave.open raises on (line 371)
FileStates == {"wav", "missing", "unreadable"}

\* the disks: the file of the silent chunk is there or not
Disks ==
    {d \in [{"c1", "c2", "c3"} -> FileStates] : d["c2"] # "unreadable"}

\* variant of Exported that takes the silent chunks too
ExportedWithSilent(c, disk) == disk[c.file_path] = "wav"

\* lines 353-372: the chunks export_session reads
Exported(c, disk) == ~c.is_silent /\ disk[c.file_path] = "wav"

\* lines 352-372: all_audio, merged by line 379
RECURSIVE AllAudio(_, _)
AllAudio(cs, disk) ==
    IF cs = <<>> THEN <<>>
    ELSE (IF Exported(Head(cs), disk) THEN WavFrames(Head(cs).file_path)
          ELSE <<>>) \o AllAudio(Tail(cs), disk)

\* the number of chunks export_session reads
RECURSIVE CountExported(_, _)
CountExported(cs, disk) ==
    IF cs = <<>> THEN 0
    ELSE (IF Exported(Head(cs), disk) THEN 1 ELSE 0)
         + CountExported(Tail(cs), disk)

\* export_session(id) (lines 331-395) on a table and a disk: the path
\* returned (<<>> for None), the WAV written and the table afterwards
ExportSession(table, disk, id) ==
    LET got == GetSession(table, id)
    IN IF got = <<>>
       THEN [path |-> <<>>, wav |-> <<>>, table |-> table]
       ELSE IF CountExported(got[1].chunks, disk) = 0
       THEN [path |-> <<>>, wav |-> <<>>, table |-> table]
       ELSE [path |-> <<"exports", id>>,
             wav |-> AllAudio(got[1].chunks, disk),
             table |-> InsertOrReplace(table,
                          SessionRow([got[1] EXCEPT !.status = "exported"]))]

\* the sessions that are exported
ExportValues ==
    [session_id : {"sess_a"},
     start_time : {5},
     end_time : {<<9>>},
     chunks : ExportChunkLists,
     status : {"recording", "completed"},
     tags : {<<"tag">>},
     transcription_status : {"pending"},
     transcription_path : {<<>>},
     notes : {""},
     title : {"t"},
     summary : {""}]

\* a session of the table that no call exports
OtherSession ==
    CHOOSE x \in SessionValues :
        x.session_id = "sess_b" /\ Len(x.chunks) = 2 /\ x.status = "completed"

\* export_session(id) on a table of two sessions; id is a session of the
\* table or of no row
ExportCall ==
    /\ \E x \in ExportValues, id \in {"sess_a", "sess_c"},
          disk \in Disks :
          LET before == {SessionRow(x), SessionRow(OtherSession)}
              r == ExportSession(before, disk, id)
          IN call' = [op |-> "export", in |-> x, id |-> id, disk |-> disk,
                      before |-> before, table |-> r.table,
                      out |-> r.path, wav |-> r.wav]
    /\ UNCHANGED <<recorder, watch>>

NextExport == ExportCall

----------------------------------------------------------------------------
(* Specification *)

Next ==
    \/ Tick
    \/ AudioCallback
    \/ Start
    \/ ChunkerCheck
    \/ ChunkerCut
    \/ \E t \in Threads : SaveChunkBegin(t)
    \/ \E t \in Threads : SaveChunkWrite(t)
    \/ \E t \in Threads : HandleSession(t)
    \/ \E t \in Threads : StartNewSessionSave(t)
    \/ \E t \in Threads : HandleSessionSave(t)
    \/ \E t \in Threads : HandleSessionSwitch(t)
    \/ \E t \in Threads : CompleteCurrentSession(t)
    \/ \E t \in Threads : CompleteReset(t)
    \/ StopBegin
    \/ StopJoin
    \/ StopFlush
    \/ StopFlushDone
    \/ StopClose
    \/ ScanAndSwitch

\* the recorder with a client that hot-swaps the device
NextClient == Next \/ ClientSwitch

\* start() called on a recorder that is recording (lines 387-389): a
\* warning is logged and False returned
StartWhileRecording ==
    /\ is_recording
    /\ call' = [op |-> "start", recording |-> TRUE, chunks |-> chunk_count]
    /\ ret' = [ret EXCEPT !.start = "False"]
    /\ UNCHANGED <<cfg, env, watch, files, clock, is_recording, stream,
                   device, stop_event, lock, buffer, chunk_count,
                   total_duration, last_chunk_time, current_session,
                   consecutive_silence_count, sessions, store, produced,
                   events, pc, loc, last_device_scan_time, scans, closures,
                   run_switch, device_events, delivered>>

\* stop() called on a recorder that is not recording (lines 446-447)
StopNotRecording ==
    /\ ~is_recording
    /\ pc["stopper"] \in {"idle", "done"}
    /\ call' = [op |-> "stop", recording |-> FALSE, chunks |-> chunk_count]
    /\ UNCHANGED <<cfg, env, watch, files, ret, clock, is_recording, stream,
                   device, stop_event, lock, buffer, chunk_count,
                   total_duration, last_chunk_time, current_session,
                   consecutive_silence_count, sessions, store, produced,
                   events, pc, loc, last_device_scan_time, scans, closures,
                   run_switch, device_events, delivered>>

\* variant of CountAtRestart that starts the chunk numbers over
CountFromZero == chunk_count - chunk_count

\* start() assigns no field of RecordingState but is_recording (lines
\* 385-443): the counters are those stop() left
CountAtRestart == chunk_count

\* start() called after stop() has returned, the threads of the run before
\* having ended (lines 385-443): a new stream, the stop event cleared
\* (line 430), new chunker and monitor threads, is_recording set
StartAgain ==
    /\ ~is_recording
    /\ pc["stopper"] = "done"
    /\ pc["chunker"] \in {"exited", "crashed"}
    /\ call' = [op |-> "start", recording |-> FALSE, chunks |-> chunk_count]
    /\ chunk_count' = CountAtRestart
    /\ \E outcome \in {"running", "not_created", "not_started"} :
          /\ is_recording' = RecordingAfterStart(outcome)
          /\ IF outcome = "running"
             THEN /\ stream' = "open"
                  /\ stop_event' = FALSE
                  /\ pc' = [pc EXCEPT !["chunker"] = "loop",
                                      !["monitor"] = "running",
                                      !["stopper"] = "idle"]
                  /\ ret' = [ret EXCEPT !.start = "True"]
             ELSE /\ stream' = IF outcome = "not_started" THEN "unstarted"
                               ELSE stream
                  /\ ret' = [ret EXCEPT !.start = "False"]
                  /\ UNCHANGED <<stop_event, pc>>
    /\ UNCHANGED <<cfg, env, watch, files, clock, device, lock, buffer,
                   total_duration, last_chunk_time, current_session,
                   consecutive_silence_count, sessions, store, produced,
                   events, loc, last_device_scan_time, scans, closures,
                   run_switch, device_events, delivered>>

\* the chunks of a stored session that export_session reads (session.py
\* lines 353-360): not silent, with their file on the disk
StoredAudio(s) ==
    {i \in 1..Len(store[s].chunks) :
        /\ ~produced[store[s].chunks[i]].is_silent
        /\ produced[store[s].chunks[i]].file_path \in files}

\* export_session called by a client of the store on a session that is
\* stored (session.py lines 331-395): with a chunk to read, the session it
\* loaded is saved with status exported
ClientExport ==
    /\ \E s \in DOMAIN store :
          /\ store[s].present
          /\ StoredAudio(s) # {}
          /\ store[s].status # "exported"
          /\ store' = [store EXCEPT ![s].status = "exported"]
    /\ UNCHANGED <<cfg, env, call, watch, files, ret, clock, is_recording,
                   stream, device, stop_event, lock, buffer, chunk_count,
                   total_duration, last_chunk_time, current_session,
                   consecutive_silence_count, sessions, produced, events,
                   pc, loc, last_device_scan_time, scans, closures,
                   run_switch, device_events, delivered>>

\* the recorder with a client of the session store that exports sessions
NextExporter == Next \/ ClientExport

\* the recorder with a client that calls start() and stop() in any state
NextRestart == Next \/ StartWhileRecording \/ StopNotRecording \/ StartAgain

Spec == Init /\ [][Next]_vars

SpecS3 == InitS3 /\ [][Next]_vars

SpecFaults == InitFaults /\ [][Next]_vars

SpecSubscribers == InitSubscribers /\ [][NextClient]_vars

SpecClient == InitClient /\ [][NextClient]_vars

SpecRestart == InitClient /\ [][NextRestart]_vars

SpecExporter == InitClient /\ [][NextExporter]_vars

SpecResolve == Init /\ [][NextResolve]_vars

SpecStore == Init /\ [][NextStore]_vars

SpecExport == Init /\ [][NextExport]_vars

SpecWatch == Init /\ [][NextWatch]_vars

SpecWatchFair == Init /\ [][NextWatch]_vars /\ FairWatch

TypeOK ==
    /\ buffer \in 0..env.frames
    /\ current_session \in 0..Len(sessions)
    /\ Len(store) = Len(sessions)
    /\ lock \in {"free", "stopper"}
    /\ stream \in {"none", "unstarted", "open"}
    /\ ret.start \in {"none", "True", "False"}
    /\ ret.switch \in {"none", "True", "False"}
    /\ ret.old \in {"none", "absent", "closed", "left_open"}
    /\ ret.scan \in
          {"none", "raised", "no_device", "switch_device"} \X BOOLEAN

----------------------------------------------------------------------------
(* Vocabulary of the properties *)

RECURSIVE SeqSum(_)
SeqSum(q) == IF q = <<>> THEN 0 ELSE Head(q) + SeqSum(Tail(q))

\* frames of the non-silent chunks of session s, summed chunk by chunk
AudibleFrames(s) ==
    SeqSum([i \in 1..Len(sessions[s].chunks) |->
               IF produced[sessions[s].chunks[i]].is_silent THEN 0
               ELSE produced[sessions[s].chunks[i]].duration])

MinFrames == cfg.min_session_duration * cfg.sample_rate

CompletedFired(s) ==
    \E i \in 1..Len(events) :
        events[i].kind = "session_completed" /\ events[i].id = s

Discarded(s) ==
    \E i \in 1..Len(closures) : closures[i].sid = s /\ ~closures[i].fired

HasSilentChunk(s) ==
    \E i \in 1..Len(sessions[s].chunks) :
        produced[sessions[s].chunks[i]].is_silent

----------------------------------------------------------------------------
(* C1: whenever on_session_completed(s) has fired, by the chunker's       *)
(* hysteresis or by stop(), the non-silent chunks of s add up to at least *)
(* min_session_duration.                                                  *)

InvC1 ==
    \A s \in 1..Len(sessions) : CompletedFired(s) => AudibleFrames(s) >= MinFrames

\* a completed session that also holds a silent chunk
WitC1 ==
    \E s \in 1..Len(sessions) : CompletedFired(s) /\ HasSilentChunk(s)

----------------------------------------------------------------------------
(* C2: every session for which on_session_completed has fired is in the   *)
(* store with status completed, and every session discarded for brevity   *)
(* is absent from the store.                                              *)

InvC2 ==
    \A s \in 1..Len(sessions) :
        /\ CompletedFired(s) => store[s].present /\ store[s].status = "completed"
        /\ Discarded(s) => ~store[s].present

----------------------------------------------------------------------------
(* C3: _complete_current_session decides by the audible duration alone.   *)
(* Below min_session_duration the session is deleted from the store and   *)
(* on_session_completed is not fired; at or above it the status becomes   *)
(* completed, the session is persisted and on_session_completed fires     *)
(* once; in both cases the call leaves current_session = None and         *)
(* consecutive_silence_count = 0.                                         *)

StepC3 ==
    \A t \in Threads :
        /\ (pc[t] = "complete" /\ pc'[t] = "complete_reset") =>
              LET s == current_session
              IN IF AudibleFrames(s) < MinFrames
                 THEN /\ ~store'[s].present
                      /\ events' = events
                 ELSE /\ sessions'[s].status = "completed"
                      /\ store'[s].present
                      /\ store'[s].status = "completed"
                      /\ store'[s].chunks = sessions'[s].chunks
                      /\ \E r \in Raisers :
                            events' = Append(events,
                                Event("session_completed", s, t, r))
        /\ (pc[t] = "complete_reset" /\ pc'[t] # "complete_reset") =>
              /\ current_session' = 0
              /\ consecutive_silence_count' = 0

PropC3 == [][StepC3]_vars

\* a session of exactly the minimum duration was completed and the call
\* has returned
WitC3 ==
    \E i \in 1..Len(closures) :
        /\ closures[i].fired
        /\ AudibleFrames(closures[i].sid) = MinFrames
        /\ Len(sessions[closures[i].sid].chunks) = 1
        /\ pc[closures[i].by] \notin {"complete", "complete_reset"}
        /\ current_session = 0

----------------------------------------------------------------------------
(* C4: with N_silence >= 1 and no device switch during the run of silent  *)
(* chunks, the hysteresis ends a session exactly at the chunk that makes  *)
(* N_silence consecutive silent chunks: a session ended by the hysteresis *)
(* has N_silence trailing silent chunks, no session is still active once  *)
(* its chunk handling is over with N_silence trailing silent chunks, and  *)
(* handling a non-silent chunk resets the count to 0.                     *)

HandlingOver == \A t \in Threads : pc[t] \notin {"hs_save", "complete", "complete_reset"}

InvC4 ==
    Threshold >= 1 =>
        /\ \A i \in 1..Len(closures) :
              (closures[i].via = "hs_switch" /\ ~closures[i].switched)
                  => closures[i].tail = Threshold
        /\ (current_session # 0 /\ HandlingOver /\ ~run_switch)
              => TailSilent(sessions[current_session].chunks) < Threshold

StepC4 ==
    \A t \in Threads :
        (pc[t] = "handle" /\ pc'[t] # "handle"
             /\ ~produced[loc[t].chunk].is_silent)
            => consecutive_silence_count' = 0

PropC4 == [][InvC4 /\ InvC4' /\ StepC4]_vars

\* a session was ended by the hysteresis at its N_silence-th silent chunk,
\* N_silence being at least 2
WitC4 ==
    /\ Threshold >= 2
    /\ \E i \in 1..Len(closures) :
          /\ closures[i].via = "hs_switch"
          /\ ~closures[i].switched
          /\ closures[i].tail = Threshold

----------------------------------------------------------------------------
(* C5: over all chunks of one recorder, cut by the chunker loop or        *)
(* flushed by stop(), indices strictly increase and timestamps never      *)
(* decrease, in every interleaving of the chunker thread and stop().      *)

InvC5 ==
    \A i, j \in 1..Len(produced) :
        i < j => /\ produced[i].index < produced[j].index
                 /\ produced[i].timestamp <= produced[j].timestamp

----------------------------------------------------------------------------
(* C6: no chunk is in more than one session, and every chunk of a session *)
(* is a chunk this recorder produced, listed once and in the order the    *)
(* chunks were saved.                                                     *)

InvC6 ==
    /\ \A s \in 1..Len(sessions) :
          LET cs == sessions[s].chunks
          IN /\ \A k \in 1..Len(cs) : cs[k] \in 1..Len(produced)
             /\ \A k, m \in 1..Len(cs) : k < m => cs[k] < cs[m]
    /\ \A s1, s2 \in 1..Len(sessions) :
          s1 # s2 =>
              \A k \in 1..Len(sessions[s1].chunks),
                 m \in 1..Len(sessions[s2].chunks) :
                  sessions[s1].chunks[k] # sessions[s2].chunks[m]

----------------------------------------------------------------------------
(* C7: for every session s, on_chunk_saved(c) fires before the session    *)
(* callback that involves c (on_session_created for the opening chunk,    *)
(* on_session_completed for any chunk of s), and on_session_created(s)    *)
(* fires before on_chunk_saved of every later chunk of s.                 *)

Fired(i, kind, id) == events[i].kind = kind /\ events[i].id = id

InvC7 ==
    \A s \in 1..Len(sessions) :
        LET cs == sessions[s].chunks
        IN \A i \in 1..Len(events) :
              /\ Fired(i, "session_created", s) =>
                    /\ \E j \in 1..(i - 1) : Fired(j, "chunk_saved", cs[1])
                    /\ \A k \in 2..Len(cs) :
                          \A j \in 1..Len(events) :
                              Fired(j, "chunk_saved", cs[k]) => i < j
              /\ Fired(i, "session_completed", s) =>
                    \A k \in 1..Len(cs) :
                        \E j \in 1..(i - 1) : Fired(j, "chunk_saved", cs[k])

----------------------------------------------------------------------------
(* C8: once stop() has returned there is no current session,              *)
(* is_recording is false and no session is left in the store with status  *)
(* recording, also when the join of the chunker thread timed out.         *)

InvC8 ==
    pc["stopper"] = "done" =>
        /\ current_session = 0
        /\ ~is_recording
        /\ \A s \in 1..Len(store) :
              ~(store[s].present /\ store[s].status = "recording")

----------------------------------------------------------------------------
(* C9: handling a silent chunk while no session is active creates no      *)
(* session, fires no session callback and leaves the store unchanged; the *)
(* first chunk of every session is non-silent.                            *)

InvC9 ==
    \A s \in 1..Len(sessions) : ~produced[sessions[s].chunks[1]].is_silent

StepC9 ==
    \A t \in Threads :
        (pc[t] = "handle" /\ pc'[t] # "handle"
             /\ produced[loc[t].chunk].is_silent /\ current_session = 0)
            => /\ sessions' = sessions
               /\ store' = store
               /\ events' = events
               /\ current_session' = 0
               /\ pc'[t] = Ret(t)

PropC9 == [][InvC9 /\ InvC9' /\ StepC9]_vars

InSomeSession(c) ==
    \E s \in 1..Len(sessions) :
        \E k \in 1..Len(sessions[s].chunks) : sessions[s].chunks[k] = c

\* after a session was closed by the hysteresis, a silent chunk has been
\* handled without entering any session
WitC9 ==
    /\ \E i \in 1..Len(closures) : closures[i].via = "hs_switch"
    /\ \E c \in 1..Len(produced) :
          /\ produced[c].is_silent
          /\ ~InSomeSession(c)
          /\ \A t \in Threads : ~(pc[t] = "handle" /\ loc[t].chunk = c)
          /\ \A s \in 1..Len(sessions) :
                \A k \in 1..Len(sessions[s].chunks) : sessions[s].chunks[k] < c

----------------------------------------------------------------------------
(* C10: with N_silence = 0, a silent chunk appended to the active session *)
(* ends that session within the same call of _handle_session: when the    *)
(* call reaches its last statement the session has been completed or      *)
(* discarded and is no longer the current session.                        *)

InvC10 ==
    Threshold = 0 =>
        \A t \in Threads :
            (pc[t] = "hs_switch" /\ produced[loc[t].chunk].is_silent)
                => /\ current_session # loc[t].sess
                   /\ CompletedFired(loc[t].sess) \/ Discarded(loc[t].sess)

WitC10 ==
    /\ Threshold = 0
    /\ \E t \in Threads :
          /\ pc[t] = "hs_switch"
          /\ produced[loc[t].chunk].is_silent
          /\ Discarded(loc[t].sess)

----------------------------------------------------------------------------
(* C11: in scenario S3 (10 s chunks, silence gap 20 s, minimum session     *)
(* 10 s; 4 s of audible speech, 25 s of silence, then stop()) the store    *)
(* holds no session once stop() has returned.                              *)

InvC11 ==
    pc["stopper"] = "done" =>
        \A s \in 1..Len(store) : ~store[s].present

(* C11 as amended: in scenario S3 one session is left in the store, not   *)
(* zero: the chunk that holds the 4 s of speech is non-silent and counts  *)
(* with its whole length, which is not below min_session_duration, so the *)
(* session is never discarded for brevity.                                *)

AtRest == pc["stopper"] = "done" /\ pc["chunker"] = "exited"

InvC11Kept ==
    /\ \A i \in 1..Len(closures) : closures[i].fired
    /\ AtRest =>
          /\ Len(sessions) = 1
          /\ store[1].present
          /\ AudibleFrames(1) >= MinFrames

\* the run without overlap: three chunks, the session completed by the
\* hysteresis at the final chunk with a duration of one chunk
WitC11 ==
    /\ AtRest
    /\ Len(produced) = 3
    /\ Len(sessions) = 1
    /\ Len(sessions[1].chunks) = 3
    /\ store[1].present
    /\ store[1].status = "completed"
    /\ AudibleFrames(1) = MinFrames
    /\ CompletedFired(1)

----------------------------------------------------------------------------
(* C12: every chunk produced has is_silent exactly when its rms_level is   *)
(* below silence_threshold or its speech_ratio is below 0.05; loud chunks  *)
(* without speech are therefore silent, and while every chunk produced is  *)
(* of that kind no session exists.                                         *)

LoudNoSpeech(c) ==
    produced[c].rms_level >= cfg.silence_threshold /\ produced[c].speech_ratio = 0

InvC12 ==
    /\ \A c \in 1..Len(produced) :
          produced[c].is_silent <=>
              (produced[c].rms_level < cfg.silence_threshold
                   \/ produced[c].speech_ratio < 5)
    /\ (\A c \in 1..Len(produced) : LoudNoSpeech(c)) => sessions = <<>>

\* three loud chunks without speech have been handled and left no session
WitC12 ==
    /\ Len(produced) = 3
    /\ \A c \in 1..Len(produced) : LoudNoSpeech(c) /\ produced[c].is_silent
    /\ \A t \in Threads : pc[t] \notin MidIteration
    /\ sessions = <<>>

----------------------------------------------------------------------------
(* C13: when the VAD backend is missing or fails, a chunk is silent        *)
(* exactly when its rms_level is below silence_threshold, so loud chunks   *)
(* still open sessions.                                                    *)

InvC13 ==
    env.vad = "down" =>
        \A c \in 1..Len(produced) :
            produced[c].is_silent <=>
                produced[c].rms_level < cfg.silence_threshold

----------------------------------------------------------------------------
(* C14: when writing a chunk file fails the chunk is dropped: no chunk     *)
(* object is made, no session receives it, on_chunk_saved is not fired,    *)
(* chunk_count, total_duration, the current session and                    *)
(* consecutive_silence_count are unchanged, and the chunker returns to its *)
(* loop to process later chunks.                                           *)

StepC14 ==
    \A t \in Threads :
        (pc[t] = "write" /\ pc'[t] # "write" /\ pc'[t] # "handle") =>
            /\ produced' = produced
            /\ sessions' = sessions
            /\ store' = store
            /\ events' = events
            /\ chunk_count' = chunk_count
            /\ total_duration' = total_duration
            /\ current_session' = current_session
            /\ consecutive_silence_count' = consecutive_silence_count
            /\ t = "chunker" => pc'[t] = "loop"

PropC14 == [][StepC14]_vars

\* the chunker is back in its loop, audio it cut off the buffer was dropped
\* and a chunk has been saved
WitC14 ==
    /\ pc["chunker"] = "loop"
    /\ pc["stopper"] = "idle"
    /\ delivered - buffer > total_duration
    /\ Len(produced) >= 1
    /\ chunk_count = Len(produced)

----------------------------------------------------------------------------
(* C15: a failed store write (save or delete) during chunk handling does   *)
(* not escape the audio path: the chunker thread is never ended by it, and *)
(* the current session in memory still holds the chunk being handled.      *)

InvC15 ==
    /\ pc["chunker"] # "crashed"
    /\ \A t \in Threads :
          (pc[t] = "hs_save" /\ current_session = loc[t].sess) =>
              \E k \in 1..Len(sessions[current_session].chunks) :
                  sessions[current_session].chunks[k] = loc[t].chunk

----------------------------------------------------------------------------
(* C17: stop() always runs to completion: it never ends by raising, and    *)
(* when it has ended is_recording is false and the capture stream is       *)
(* closed and released, also when a store write of the final flush or of   *)
(* the session completion fails or the stream's stop or close fails.       *)

InvC17 ==
    /\ pc["stopper"] # "raised"
    /\ pc["stopper"] = "done" => (~is_recording /\ stream = "none")

----------------------------------------------------------------------------
(* C18: when the input stream cannot be created or started, start()        *)
(* returns False, is_recording stays false and neither the chunker nor the *)
(* monitor thread is started; start() returns True only with the stream    *)
(* running, both threads started and is_recording true.                    *)

InvC18 ==
    /\ ret.start = "False" =>
          (~is_recording /\ pc["chunker"] = "idle" /\ pc["monitor"] = "idle")
    /\ ret.start = "True" => (pc["chunker"] # "idle" /\ pc["monitor"] # "idle")

StepC18 ==
    (ret.start # "True" /\ ret'.start = "True") =>
        /\ stream' = "open"
        /\ is_recording'
        /\ pc'["chunker"] = "loop"
        /\ pc'["monitor"] = "running"

PropC18 == [][InvC18 /\ InvC18' /\ StepC18]_vars

\* start() has failed because the stream it created could not be started
WitC18 ==
    /\ ret.start = "False"
    /\ stream = "unstarted"
    /\ ~is_recording

(* C19: a switch_device call that succeeds stops and closes the stream it
   replaces, leaves a running stream on the requested device opened with
   the parameters start() uses, sets consecutive_silence_count to 0, calls
   every on_device_changed subscriber exactly once with the device index
   and its name, and returns True. *)
SwitchSucceeded == Len(device_events') = Len(device_events) + 1

StepC19 ==
    SwitchSucceeded =>
        /\ ret'.old = IF stream = "none" THEN "absent" ELSE "closed"
        /\ stream' = "open"
        /\ StreamParamsAtSwitch = StreamParamsAtStart
        /\ consecutive_silence_count' = 0
        /\ ret'.switch = "True"
        /\ LET e == device_events'[Len(device_events')]
           IN /\ device_events' = Append(device_events, e)
              /\ e.index = device'
              /\ e.name = DeviceName(device')
              /\ e.heard = SubscriberList

SwitchReturnedFalse ==
    /\ ret'.switch = "False"
    /\ ret'.switch # ret.switch \/ device' # device

StepC20 ==
    SwitchReturnedFalse =>
        /\ stream' = stream
        /\ device' = device
        /\ device_events' = device_events

PropC20 == [][StepC20]_vars

(* C16: when a subscriber of on_chunk_saved, on_session_created,
   on_session_completed or on_device_changed raises, every subscriber of
   that event is still called, the calling thread goes on where it would
   have, and chunk_count, current_session and the store get the values
   the handler gives them when nobody raises. *)
RaisedInLifecycle ==
    /\ Len(events') = Len(events) + 1
    /\ events'[Len(events')].raised # {}

RaisedInDeviceChange ==
    /\ Len(device_events') = Len(device_events) + 1
    /\ device_events'[Len(device_events')].raised # {}

StepC16 ==
    /\ RaisedInLifecycle =>
          LET e == events'[Len(events')]
              t == e.by
          IN /\ e.heard = SubscriberList
             /\ current_session' = current_session
             /\ chunk_count' =
                   IF e.kind = "chunk_saved" THEN loc[t].idx ELSE chunk_count
             /\ store' =
                   CASE e.kind = "chunk_saved" -> store
                     [] e.kind = "session_created" ->
                           SaveSession(store, sessions, e.id)
                     [] e.kind = "session_completed" ->
                           SaveSession(store, sessions', e.id)
             /\ pc'[t] =
                   CASE e.kind = "chunk_saved" -> "handle"
                     [] e.kind = "session_created" -> Ret(t)
                     [] e.kind = "session_completed" -> "complete_reset"
    /\ RaisedInDeviceChange =>
          /\ device_events'[Len(device_events')].heard = SubscriberList
          /\ ret'.switch = "True"
          /\ stream' = "open"
          /\ consecutive_silence_count' = 0
          /\ chunk_count' = chunk_count
          /\ current_session' = current_session
          /\ store' = store

PropC16 == [][StepC16]_vars

\* a subscriber of each of the four events has raised and stop() has
\* run to its end
WitC16 ==
    /\ \A k \in {"chunk_saved", "session_created", "session_completed"} :
          \E i \in 1..Len(events) :
             events[i].kind = k /\ events[i].raised # {}
    /\ \E i \in 1..Len(device_events) : device_events[i].raised # {}
    /\ pc["stopper"] = "done"
    /\ pc["chunker"] = "exited"

----------------------------------------------------------------------------
(* C21: a switch_device call leaves current_session, the chunk lists of
   the sessions, chunk_count, total_duration and the frame accumulator
   unchanged and is_recording true; within every session the chunk
   indices strictly increase and the timestamps never decrease, also from
   a chunk produced before a swap to one produced after it. *)
SwitchCalled == device' # device

StepC21 ==
    SwitchCalled =>
        /\ current_session' = current_session
        /\ sessions' = sessions
        /\ chunk_count' = chunk_count
        /\ total_duration' = total_duration
        /\ buffer' = buffer
        /\ is_recording /\ is_recording'

InvC21 ==
    \A s \in 1..Len(sessions) :
        LET cs == sessions[s].chunks
        IN \A i, j \in 1..Len(cs) :
              i < j => /\ produced[cs[i]].index < produced[cs[j]].index
                       /\ produced[cs[i]].timestamp
                              <= produced[cs[j]].timestamp

PropC21 == [][InvC21 /\ InvC21' /\ StepC21]_vars

\* a session holds a chunk produced before a successful swap and a chunk
\* produced after it
WitC21 ==
    \E s \in 1..Len(sessions), e \in 1..Len(device_events) :
        LET cs == sessions[s].chunks
        IN \E i, j \in 1..Len(cs) :
              /\ cs[i] <= device_events[e].chunks
              /\ cs[j] > device_events[e].chunks
              /\ ret.switch = "True"

----------------------------------------------------------------------------
(* C28: every on_chunk_saved, on_session_created, on_session_completed
   and on_device_changed subscriber is called on the chunker thread. *)
InvC28 ==
    /\ \A i \in 1..Len(events) : events[i].by = "chunker"
    /\ \A i \in 1..Len(device_events) : device_events[i].by = "chunker"

----------------------------------------------------------------------------
(* C24: when a scan runs while some capture device other than the current
   one, with no excluded keyword in its name, has a level above the scan
   threshold, the scan switches to the loudest such device and
   on_device_changed fires for it. *)
EligibleOthers ==
    {d \in Devices \ {device} :
        /\ HostTable[d].can_capture
        /\ HostTable[d].name \cap ExcludeKeywords = {}
        /\ HostTable[d].rms > ScanThreshold}

ScanRan == scans' = scans - 1

StepC24 ==
    (ScanRan /\ EligibleOthers # {}) =>
        /\ device' \in EligibleOthers
        /\ \A d \in EligibleOthers : HostTable[d].rms <= HostTable[device'].rms
        /\ Len(device_events') = Len(device_events) + 1
        /\ device_events'[Len(device_events')].index = device'

PropC24 == [][StepC24]_vars

----------------------------------------------------------------------------
(* C25: a scan that ends when stop() has completed does not call
   switch_device: it leaves the stream, the device index and the
   on_device_changed subscribers alone, and once stop() has completed no
   capture stream is open. *)
StepC25 ==
    (ScanRan /\ ~is_recording) =>
        /\ ret'.scan[1] # "switch_device"
        /\ stream' = stream
        /\ device' = device
        /\ device_events' = device_events

InvC25 == (pc["stopper"] = "done" /\ ~is_recording) => stream # "open"

----------------------------------------------------------------------------
(* C29: a chunk with rms at or above the silence threshold and a speech
   ratio below 5% that was handled while no session was active, and so
   is in no session, has its file removed from disk. *)
Handled(c) == \A t \in Threads : pc[t] \in MidIteration => loc[t].chunk # c

InvC29 ==
    \A c \in 1..Len(produced) :
        (LoudNoSpeech(c) /\ Handled(c) /\ ~InSomeSession(c)) =>
            produced[c].file_path \notin files

----------------------------------------------------------------------------
(* C26: the frame queue is capped: however long the chunker stalls, the
   callback drops frames before the queue holds every frame the host
   delivers in the run. *)
InvC26 == buffer < env.frames

----------------------------------------------------------------------------
(* C27: start() opens the stream on the current index of the device that
   preferred_device names when there is one, even if a device index was
   given; else on the device index given; else, with auto_detect on, on
   the auto-selected device; else on the host default. *)
InvC27 ==
    call.op = "resolve" =>
        LET in == call.in
            named == IF in.preferred = "" THEN 0
                     ELSE GetDeviceByName(in.names, in.preferred)
        IN call.out.opened =
              IF named # 0 THEN named
              ELSE IF in.device # 0 THEN in.device
              ELSE IF in.auto_detect THEN in.auto
              ELSE 0

----------------------------------------------------------------------------
(* C30: Session.from_dict(s.to_dict()) equals s on every declared field,
   chunk order included; get_session(s.session_id) after save_session(s)
   returns a session equal to s; and saving a session id again leaves one
   row for it, holding the latest document, and the other rows as they
   were. *)
InvC30 ==
    /\ call.op = "round_trip" => call.out = call.in
    /\ call.op = "save_get" =>
          /\ call.out = <<call.in>>
          /\ Cardinality({r \in call.table :
                             r.session_id = call.in.session_id}) = 1
          /\ \A r \in call.table :
                r.session_id = call.in.session_id
                    => r = SessionRow(call.in)
          /\ \A r \in call.before :
                r.session_id # call.in.session_id => r \in call.table

\* a session with two chunks and an end time was saved over another
\* document with the same id, next to a row of another session
WitC30 ==
    /\ call.op = "save_get"
    /\ Len(call.in.chunks) = 2
    /\ call.in.end_time # <<>>
    /\ \E r \in call.before :
          r.session_id = call.in.session_id /\ r # SessionRow(call.in)
    /\ \E r \in call.before : r.session_id # call.in.session_id
    /\ call.out = <<call.in>>

----------------------------------------------------------------------------
(* C22: device scans are rate-limited to one per 5 seconds: whatever the
   interleaving of the requests of the monitor thread and of the chunker
   thread, two scan threads are never started less than ScanInterval
   seconds apart. *)
InvC22 == ~watch.too_soon

----------------------------------------------------------------------------
(* C23: with auto_switch enabled, on a recorder started on a device that
   has delivered no frame above silence_threshold since the start, once
   the silence has lasted longer than silence_timeout_for_switch a call of
   _check_alternative_devices is made in the end (or a frame above the
   threshold arrives). *)
SilentTooLong ==
    /\ cfg.auto_switch
    /\ watch.is_recording
    /\ watch.last_sound_time = -1
    /\ watch.uptime > cfg.silence_timeout_for_switch

PropC23 ==
    SilentTooLong ~> (watch.requested \/ watch.last_sound_time # -1)

----------------------------------------------------------------------------
(* C33: the buffer lock is held only for the append of the audio callback
   and for the drain of the buffer: no thread holds it while a chunk file
   is written, the session store is written or subscriber callbacks run,
   stop() included. *)
DoesIO(t) ==
    pc[t] \in {"write", "start_save", "hs_save", "complete"}

InvC33 == \A t \in Threads : lock = t => ~DoesIO(t)

----------------------------------------------------------------------------
(* C35: stop() saves the remainder of the buffer as a last chunk if and
   only if it holds at least one second of samples, a remainder of exactly
   sample_rate samples included. *)
FlushDecided == pc["stopper"] = "flush" /\ pc'["stopper"] # "flush"

StepC35 ==
    FlushDecided =>
        (pc'["stopper"] = "save" <=> buffer >= cfg.sample_rate)

PropC35 == [][StepC35]_vars

----------------------------------------------------------------------------
(* C37: the handling of a chunk ends the active session only when that
   chunk is silent, for every configuration, a silence threshold of 0
   chunks included: when the chunker, on a recorder that stop() has not
   been called on, completes or discards the session from the hysteresis
   test, the chunk it is handling is silent. *)
EndsSession(t) ==
    /\ pc[t] = "complete"
    /\ loc[t].cret = "hs_switch"
    /\ Len(closures') = Len(closures) + 1

StepC37 ==
    (EndsSession("chunker") /\ pc["stopper"] = "idle")
        => produced[loc["chunker"].chunk].is_silent

PropC37 == [][StepC37]_vars

----------------------------------------------------------------------------
(* C36: the probe trigger of the chunker does not depend on the end of the
   session: when a silent chunk was appended to an active session, with
   auto_switch on, and the run of silent chunks it ends is at least
   silence_timeout_for_switch / chunk_duration_seconds long, the test of
   lines 253-257 requests a scan, which starts unless the last one is less
   than ScanInterval old, also when that chunk ended the session.  Stated
   for the chunker of a recorder that stop() has not been called on. *)
AtTrigger(t) ==
    pc[t] = "hs_switch" /\ pc'[t] # "hs_switch" /\ pc["stopper"] = "idle"

SilenceReached(t) == TailSilent(sessions[loc[t].sess].chunks)

StepC36 ==
    \A t \in Threads :
        (/\ AtTrigger(t)
         /\ cfg.auto_switch
         /\ produced[loc[t].chunk].is_silent
         /\ SilenceReached(t) * cfg.chunk_duration_seconds
                >= cfg.silence_timeout_for_switch
         /\ clock - last_device_scan_time >= ScanInterval)
            => scans' = scans + 1

PropC36 == [][StepC36]_vars

----------------------------------------------------------------------------
(* C34: chunking loses and duplicates no sample: until stop() is called,
   and unless the write of a chunk file fails, every frame the audio
   callback delivered is in one produced chunk, in the chunk the chunker
   holds, or in the accumulator; the chunk the chunker holds is the
   chunk_duration_seconds * sample_rate frames that precede the
   accumulator in the stream, and every produced chunk has that length. *)
RECURSIVE DurationSum(_)
DurationSum(cs) ==
    IF cs = <<>> THEN 0 ELSE Head(cs).duration + DurationSum(Tail(cs))

InHand == IF pc["chunker"] \in {"save", "write"} THEN loc["chunker"].data ELSE 0

Unaccounted == delivered - (DurationSum(produced) + InHand + buffer)

WriteFailed ==
    \E t \in Threads : pc[t] = "write" /\ pc'[t] # "write" /\ produced' = produced

StepC34 == (~stop_event' /\ ~WriteFailed) => Unaccounted' = Unaccounted

InvC34 ==
    ~stop_event =>
        /\ \A i \in 1..Len(produced) : produced[i].duration = SamplesPerChunk
        /\ pc["chunker"] \in {"save", "write"} =>
              /\ loc["chunker"].data = SamplesPerChunk
              /\ loc["chunker"].off + loc["chunker"].data + buffer = delivered
              /\ loc["chunker"].off % SamplesPerChunk = 0

PropC34 == [][InvC34 /\ InvC34' /\ StepC34]_vars

\* a chunk was produced, the chunker holds the next one, and the callback
\* has delivered frames behind it meanwhile; no frame is unaccounted for
WitC34 ==
    /\ ~stop_event
    /\ Len(produced) >= 1
    /\ pc["chunker"] = "write"
    /\ buffer > 0
    /\ Unaccounted = 0

----------------------------------------------------------------------------
(* C38: between two chunk handlings, with a silence threshold of at least
   one chunk: while a session is active, consecutive_silence_count is
   below the threshold and equals the number of silent chunks appended to
   the session since its last non-silent chunk and since the last
   successful switch_device, for every interleaving of the chunker with a
   switch_device call. *)
InvC38 ==
    (/\ Threshold >= 1
     /\ watch.current_session
     /\ watch.probe["chunker"].pc = "idle")
        => /\ watch.consecutive_silence_count < Threshold
           /\ watch.consecutive_silence_count = watch.tail

(* C40: start() on a recorder that is recording returns False and leaves
   the stream, the threads, the current session and the counters as they
   are; stop() on a recorder that is not recording changes nothing; after a
   stop() that has returned, start() records again and the chunks it
   produces are numbered above those produced before. *)
StartRefused ==
    is_recording /\ (call' # call \/ ret'.start # ret.start)

StopIgnored ==
    ~is_recording /\ call' # call /\ call'.op = "stop"

Restarted ==
    ~is_recording /\ is_recording' /\ pc["stopper"] = "done"

StepC40 ==
    /\ StartRefused =>
          /\ ret'.start = "False"
          /\ UNCHANGED <<is_recording, stream, pc, stop_event, lock, buffer,
                         current_session, chunk_count, total_duration,
                         last_chunk_time, consecutive_silence_count,
                         sessions, store, produced, loc>>
    /\ StopIgnored => UNCHANGED <<recorder, watch>>
    /\ Restarted =>
          /\ stream' = "open"
          /\ pc'["chunker"] = "loop"
          /\ produced' = produced
          /\ chunk_count' = chunk_count

InvC40 ==
    \A i, j \in 1..Len(produced) :
        i < j => produced[i].index < produced[j].index

PropC40 == [][InvC40 /\ InvC40' /\ StepC40]_vars

\* recording again after a stop(), with a chunk produced since start()
\* returned that is numbered above the chunks of the run before
WitC40 ==
    /\ is_recording
    /\ call.op = "start"
    /\ ~call.recording
    /\ call.chunks >= 1
    /\ Len(produced) > call.chunks
    /\ produced[Len(produced)].index > call.chunks

(* C32: once the recorder has completed or discarded a session it does not
   save or delete that session again: no step of the recorder changes the
   stored row (chunks, end_time, status, presence) of a session it has
   closed. *)
ClosedSessions == {closures[i].sid : i \in 1..Len(closures)}

StepC32 == \A s \in ClosedSessions : store'[s] = store[s]

PropC32 == [][StepC32]_vars

(* C31: export_session(id) writes the samples of the non-silent chunks of
   the stored session, in chunk order, leaving out the chunks whose file is
   missing or unreadable, and then stores the session with status exported;
   when no session has that id, or none of its non-silent chunks can be
   read, it returns None and the table is as it was. *)
ReadIndexes ==
    {i \in 1..Len(call.in.chunks) :
        /\ ~call.in.chunks[i].is_silent
        /\ call.disk[call.in.chunks[i].file_path] = "wav"}

RECURSIVE FramesFrom(_)
FramesFrom(i) ==
    IF i > Len(call.in.chunks) THEN <<>>
    ELSE (IF i \in ReadIndexes
          THEN WavFrames(call.in.chunks[i].file_path) ELSE <<>>)
         \o FramesFrom(i + 1)

InvC31 ==
    call.op = "export" =>
        IF call.id # call.in.session_id \/ ReadIndexes = {}
        THEN call.out = <<>> /\ call.table = call.before
        ELSE /\ call.out # <<>>
             /\ call.wav = FramesFrom(1)
             /\ GetSession(call.table, call.id) =
                   <<[call.in EXCEPT !.status = "exported"]>>
             /\ \A r \in call.before :
                   r.session_id # call.id => r \in call.table
             /\ Cardinality(call.table) = Cardinality(call.before)

\* a session of three chunks was exported: the silent one and one whose
\* file is missing were left out, the third was written
WitC31 ==
    /\ call.op = "export"
    /\ call.id = call.in.session_id
    /\ Len(call.in.chunks) = 3
    /\ \E i \in 1..3 : /\ ~call.in.chunks[i].is_silent
                        /\ call.disk[call.in.chunks[i].file_path] = "missing"
    /\ call.disk["c2"] = "wav"
    /\ Cardinality(ReadIndexes) = 1
    /\ Len(call.wav) = 2
    /\ call.in.status = "recording"

(* C39: the stored status of a session only moves forward: once it is
   completed or exported no step makes it recording again, so what a client
   of the store wrote to a session that is being recorded is not taken
   back by the next save of the recorder. *)
StepC39 ==
    \A s \in DOMAIN store :
        store[s].status \in {"completed", "exported"}
            => store'[s].status # "recording"

PropC39 == [][StepC39]_vars

====
